---- MODULE Spec2Model ----
(***************************************************************************)
(* LangueDeChat: dialogue management core.                                 *)
(*                                                                         *)
(* Python values are modelled as tagged records: an int n is I(n), a str   *)
(* is S(<<c1, ..., cn>>) with one-character strings ci.  A dict is a       *)
(* function whose domain is its key set; a list that is only ever used as  *)
(* a collection is a sequence, a set is a set.  A Python exception is the  *)
(* outcome RAISE of the operator that models the raising call.             *)
(***************************************************************************)
EXTENDS Integers, Sequences, FiniteSets, TLC

(***************************************************************************)
(* Python values                                                           *)
(***************************************************************************)
I(n) == [k |-> "int", n |-> n, s |-> <<>>]
S(s) == [k |-> "str", n |-> 0, s |-> s]
IsInt(v) == v.k = "int"

EmptyDict == [x \in {} |-> 0]

\* dict.update(e)
Update(d, e) ==
    [x \in DOMAIN d \cup DOMAIN e |-> IF x \in DOMAIN e THEN e[x] ELSE d[x]]

\* d.pop(key, None)
Pop(d, key) == [x \in DOMAIN d \ {key} |-> d[x]]

Range(q) == {q[i] : i \in 1..Len(q)}

\* list.index(x): the first position of x, counted from 1; 0 stands for ValueError
IndexOf(q, x) ==
    IF x \in Range(q) THEN CHOOSE i \in 1..Len(q) : q[i] = x /\ \A j \in 1..(i-1) : q[j] # x
    ELSE 0

Digits == <<"0", "1", "2", "3", "4", "5", "6", "7", "8", "9">>
\* str.isdigit()
isdigit(s) == Len(s) > 0 /\ \A i \in 1..Len(s) : s[i] \in Range(Digits)

RECURSIVE DigitsToInt(_)
DigitsToInt(s) ==
    IF s = <<>> THEN 0
    ELSE 10 * DigitsToInt(SubSeq(s, 1, Len(s) - 1)) + (IndexOf(Digits, s[Len(s)]) - 1)

RECURSIVE IntToDigits(_)
IntToDigits(n) ==
    IF n < 10 THEN <<Digits[n + 1]>>
    ELSE IntToDigits(n \div 10) \o <<Digits[(n % 10) + 1]>>

\* str(v) for a document field (a str or a non-negative int)
str(v) == IF IsInt(v) THEN S(IntToDigits(v.n)) ELSE v

\* re.sub(r'[^\w\s]', '', v).lower()
RECURSIVE StripLower(_)
StripLower(s) ==
    IF s = <<>> THEN <<>>
    ELSE LET c == Head(s)
             UpperCase == <<"A","B","C","D","E","F","G","H","I","J","K","L","M",
                            "N","O","P","Q","R","S","T","U","V","W","X","Y","Z">>
             LowerCase == <<"a","b","c","d","e","f","g","h","i","j","k","l","m",
                            "n","o","p","q","r","s","t","u","v","w","x","y","z">>
             \* \w and \s of the regular expression
             IsWordChar == c \in Range(Digits) \cup Range(UpperCase)
                                 \cup Range(LowerCase) \cup {"_"}
             IsSpace == c = " "
             \* str.lower() on one character
             LowerChar == IF c \in Range(UpperCase)
                          THEN LowerCase[IndexOf(UpperCase, c)] ELSE c
         IN  (IF IsWordChar \/ IsSpace THEN <<LowerChar>> ELSE <<>>)
             \o StripLower(Tail(s))

\* str.split(): the maximal runs of non-whitespace characters
RECURSIVE SplitFrom(_, _)
SplitFrom(s, cur) ==
    IF s = <<>> THEN (IF cur = <<>> THEN <<>> ELSE <<cur>>)
    ELSE IF Head(s) = " "
         THEN (IF cur = <<>> THEN <<>> ELSE <<cur>>) \o SplitFrom(Tail(s), <<>>)
         ELSE SplitFrom(Tail(s), Append(cur, Head(s)))
(***************************************************************************)
(* config.py                                                               *)
(***************************************************************************)
INF == "INFORM"
REQ == "REQUEST"
GOAL_KEY == "doi"
AGT_INF_KEYS == <<"authors", "document_title", "publication_title", "content_type",
                  "publisher", "open_access", "publication_year", "abstract",
                  "num_citations", GOAL_KEY>>
USR_INF_NUM_KEYS == <<"publication_year", "min_publication_year",
                      "max_publication_year", "min_num_citations">>
USR_INF_STR_KEYS == <<"authors", "document_title", "publication_title",
                      "publisher", "keywords">>
USR_INF_ENUM_KEYS ==
    [x \in {"open_access", "content_type"} |->
        IF x = "open_access"
        THEN <<S(<<"Y","e","s">>), S(<<"N","o">>)>>
        ELSE <<S(<<"C","o","n","f","e","r","e","n","c","e","s">>),
               S(<<"J","o","u","r","n","a","l","s">>),
               S(<<"B","o","o","k","s">>)>>]
USR_INF_KEYS == USR_INF_NUM_KEYS \o USR_INF_STR_KEYS \o <<"open_access", "content_type">>
AGT_REQ_KEYS == USR_INF_KEYS
USR_REQ_KEYS == AGT_INF_KEYS
\* list(set(AGT_INF_KEYS + USR_INF_KEYS)): the order is the set's iteration order,
\* fixed for one run of the program; one such order is taken here.
ALL_KEYS == AGT_INF_KEYS \o <<"min_publication_year", "max_publication_year",
                              "min_num_citations", "keywords">>

OWT == S(<<"A","N","Y","T","H","I","N","G">>)
MA == "MATCHING ALL"

USRSIM_INIT_INF == <<>>
USRSIM_REQ_ONLY_AFTER_AGT_INF == <<"open_access", "publication_year",
                                   "num_citations", "content_type">>

THX == "THANKS"
RJCT == "REJECT"
USR_SPEC_ACTS == <<THX, RJCT>>
NMA == "NO MATCH AVAILABLE"
WCP == "WITHDRAW CURRENT PROPOSALS"

\* An agent act is the tuple (intent, key) chosen by a policy, the tuple
\* (intent, key, value) completed by the tracker, or one of the strs of
\* AGT_SPEC_ACTS; None is the absent act.  One record shape holds them all.
NoValue == S(<<>>)
None == [kind |-> "none", intent |-> "", key |-> "", value |-> NoValue]
Act2(intent, key) == [kind |-> "act2", intent |-> intent, key |-> key, value |-> NoValue]
Act3(intent, key, value) == [kind |-> "act3", intent |-> intent, key |-> key, value |-> value]
AgtSpec(a) == [kind |-> "spec", intent |-> a, key |-> "", value |-> NoValue]
AGT_ACTS ==
    [i \in 1..(Len(AGT_INF_KEYS) + Len(AGT_REQ_KEYS)) |->
        IF i <= Len(AGT_INF_KEYS) THEN Act2(INF, AGT_INF_KEYS[i])
        ELSE Act2(REQ, AGT_REQ_KEYS[i - Len(AGT_INF_KEYS)])]

\* A user act is one of the strs of USR_SPEC_ACTS or the dict
\* {INF: {key: value}, REQ: [key, ...]}; NoUsrAct is None.
NoUsrAct == [kind |-> "none", spec |-> "", inf |-> EmptyDict, req |-> <<>>]
UsrSpec(a) == [kind |-> "spec", spec |-> a, inf |-> EmptyDict, req |-> <<>>]
UsrDict(inf, req) == [kind |-> "dict", spec |-> "", inf |-> inf, req |-> req]

(***************************************************************************)
(* match.py                                                                *)
(***************************************************************************)
\* A raised exception.  Operators that stand for a Python bool return one of
\* the strings TT, FF, RAISE; operators that stand for a set of keys return
\* the set, with RAISE as a member when the call raises.
RAISE == "RAISE"
TT == "T"
FF == "F"
Bool3(b) == IF b THEN TT ELSE FF
Raises(keys) == RAISE \in keys

\* the comparison functions are named ">=" and "<=": f(x, y) with x the
\* constrained value and y the constraining one
CONSTRAINING_KEYS_MAPS ==
    [x \in {"min_num_citations", "min_publication_year", "max_publication_year"} |->
        IF x = "min_num_citations" THEN <<"num_citations", ">=">>
        ELSE IF x = "min_publication_year" THEN <<"publication_year", ">=">>
        ELSE <<"publication_year", "<=">>]

\* CONSTRAINED_KEYS_MAPS[constrained_key]: the list of (constraining_key, f)
CONSTRAINED_KEYS_MAPS ==
    [x \in {"num_citations", "publication_year"} |->
        IF x = "num_citations" THEN <<<<"min_num_citations", ">=">>>>
        ELSE <<<<"min_publication_year", ">=">>, <<"max_publication_year", "<=">>>>]

\* str.strip() of whitespace
RECURSIVE strip(_)
strip(s) ==
    IF s # <<>> /\ Head(s) = " " THEN strip(Tail(s))
    ELSE IF s # <<>> /\ s[Len(s)] = " " THEN strip(SubSeq(s, 1, Len(s) - 1))
    ELSE s

\* int(v) succeeds on an int and on a str that is a digit string once
\* surrounding whitespace is removed (the values of the model hold no sign
\* and no underscore); otherwise it raises ValueError
IntOk(v) == IsInt(v) \/ isdigit(strip(v.s))
IntOf(v) == IF IsInt(v) THEN v.n ELSE DigitsToInt(strip(v.s))

\* the comparison lambdas with their arguments in the other order
ApplyCmp_reversed(f, x, y) ==
    IF ~IntOk(x) \/ ~IntOk(y) THEN RAISE
    ELSE IF f = ">=" THEN Bool3(IntOf(y) >= IntOf(x)) ELSE Bool3(IntOf(y) <= IntOf(x))

\* f(x, y) of a comparison lambda: int(x) >= int(y) or int(x) <= int(y)
ApplyCmp(f, x, y) ==
    IF ~IntOk(x) \/ ~IntOk(y) THEN RAISE
    ELSE IF f = ">=" THEN Bool3(IntOf(x) >= IntOf(y)) ELSE Bool3(IntOf(x) <= IntOf(y))

\* a _match_lambda that fails on a key the context lacks
match_lambda_missing_fails(key, context, f, v) ==
    IF key \notin DOMAIN context THEN FF ELSE ApplyCmp(f, context[key], v)

\* _match_lambda(key, context, f, v) with f applied as f(context[key], v)
match_lambda(key, context, f, v) ==
    IF key \notin DOMAIN context THEN TT ELSE ApplyCmp(f, context[key], v)

\* _find_words(context, key, value) on preprocessed values
find_words(context, key, value) ==
    LET split(s) == SplitFrom(s, <<>>)
    IN  IF key \notin DOMAIN context THEN TT
        ELSE IF IsInt(value) THEN RAISE                      \* int has no split()
        ELSE LET words == split(value.s)
                 \* hay.find(word) != -1
                 Contains(hay, word) ==
                     \E i \in 0..(Len(hay) - Len(word)) :
                        SubSeq(hay, i + 1, i + Len(word)) = word
             IN
             IF words = <<>> THEN TT
             ELSE IF IsInt(context[key]) THEN RAISE          \* int has no find()
             ELSE Bool3(\A i \in 1..Len(words) : Contains(context[key].s, words[i]))

preprocess(d) ==
    LET \* _preprocess on one value
        PreprocessValue(v) ==
            IF IsInt(v) THEN v
            ELSE IF isdigit(v.s) THEN I(DigitsToInt(v.s))
            ELSE S(StripLower(v.s))
        keep == {x \in DOMAIN d : d[x] # OWT}
    IN  [x \in keep |-> PreprocessValue(d[x])]

\* The keys one inform key adds to conflicting_keys (the body of the loop of
\* get_conflict_keys); inf_value and context are already preprocessed.
ConflictsOfKey(inf_key, inf_value, context) ==
    LET special_constraints == {"authors", "document_title", "publication_title",
                                "publisher", "keywords"}
        \* the test of special_constraints["keywords"]
        match_keywords(keywords) ==
            LET \* a or b, evaluated left to right
                OrElse(a, b) == IF a = FF THEN b ELSE a
            IN  OrElse(find_words(context, "abstract", keywords),
                       OrElse(find_words(context, "document_title", keywords),
                              find_words(context, "publication_title", keywords)))
        \* what a failed (FF) or raising test adds to conflicting_keys
        AddIfNot(r, key) == IF r = TT THEN {} ELSE IF r = FF THEN {key} ELSE {RAISE}
        \* _match_lambda(key, context, lambda x, y: f(y, x), v)
        match_lambda_swapped(key, f, v) ==
            IF key \notin DOMAIN context THEN TT ELSE ApplyCmp(f, v, context[key])
        \* _match_lambda(key, context, lambda x, y: x == y, v)
        match_lambda_eq(key, v) ==
            IF key \notin DOMAIN context THEN TT ELSE Bool3(context[key] = v)
        \* special_constraints[key](context, value)
        match_special(key, value) ==
            IF key = "keywords" THEN match_keywords(value)
            ELSE find_words(context, key, value)
        c1 == IF inf_key \in DOMAIN CONSTRAINING_KEYS_MAPS
              THEN LET ck == CONSTRAINING_KEYS_MAPS[inf_key][1]
                       f  == CONSTRAINING_KEYS_MAPS[inf_key][2]
                   IN  AddIfNot(match_lambda(ck, context, f, inf_value), ck)
              ELSE {}
        c2 == IF inf_key \in DOMAIN CONSTRAINED_KEYS_MAPS
              THEN LET lst == CONSTRAINED_KEYS_MAPS[inf_key]
                   IN  UNION {AddIfNot(match_lambda_swapped(lst[i][1], lst[i][2],
                                                            inf_value),
                                       lst[i][1]) : i \in 1..Len(lst)}
              ELSE {}
        c3 == IF inf_key \in special_constraints
              THEN AddIfNot(match_special(inf_key, inf_value), inf_key)
              ELSE AddIfNot(match_lambda_eq(inf_key, inf_value), inf_key)
    IN  c1 \cup c2 \cup c3

\* the loop of get_conflict_keys over the preprocessed inform and context
conflict_keys_of(inf, ctx) == UNION {ConflictsOfKey(x, inf[x], ctx) : x \in DOMAIN inf}

\* get_conflict_keys(inform, context): the set of conflicting keys; RAISE is a
\* member when the call raises
get_conflict_keys(inform, context) == conflict_keys_of(preprocess(inform), preprocess(context))

(***************************************************************************)
(* The knowledge base (data/knowledge_base.json): documents as built by    *)
(* utils/ieee_api.py, every field present and non-empty, publication_year  *)
(* and num_citations ints, the other fields strs, the dois distinct.       *)
(***************************************************************************)
KB ==
    <<("authors" :> S(<<"A","l",","," ","B","o">>)) @@
      ("document_title" :> S(<<"A","I">>)) @@
      ("publication_title" :> S(<<"J","o">>)) @@
      ("content_type" :> S(<<"J","o","u","r","n","a","l","s">>)) @@
      ("publisher" :> S(<<"I","E">>)) @@
      ("open_access" :> S(<<"Y","e","s">>)) @@
      ("publication_year" :> I(2020)) @@
      ("abstract" :> S(<<"a","i"," ","m","l">>)) @@
      ("num_citations" :> I(10)) @@
      ("doi" :> S(<<"d",".","1">>)),
      ("authors" :> S(<<"A","l">>)) @@
      ("document_title" :> S(<<"M","L">>)) @@
      ("publication_title" :> S(<<"C","o">>)) @@
      ("content_type" :> S(<<"C","o","n","f","e","r","e","n","c","e","s">>)) @@
      ("publisher" :> S(<<"I","E">>)) @@
      ("open_access" :> S(<<"N","o">>)) @@
      ("publication_year" :> I(2018)) @@
      ("abstract" :> S(<<"m","l">>)) @@
      ("num_citations" :> I(3)) @@
      ("doi" :> S(<<"d",".","2">>))>>

(***************************************************************************)
(* KBManager.py (the queries as functions of the immutable knowledge base) *)
(***************************************************************************)
\* the str NMA as a value returned by find_matching_value
NMA_VALUE == S(<<"N","O"," ","M","A","T","C","H"," ","A","V","A","I","L","A","B","L","E">>)

\* _preprocess(doc) of get_conflict_keys(constraints, doc), which depends on
\* the document alone
PreprocessedKB == [i \in 1..Len(KB) |-> preprocess(KB[i])]

\* get_conflict_keys(constraints, doc) for each doc in self._kb
DocConflicts(constraints) ==
    LET inf == preprocess(constraints)
    IN  [i \in 1..Len(KB) |-> conflict_keys_of(inf, PreprocessedKB[i])]

\* find_matching_docs raises when the filter raises on some document
find_matching_docs_raises(constraints) ==
    LET conflicts == DocConflicts(constraints)
    IN  \E i \in 1..Len(KB) : Raises(conflicts[i])

RECURSIVE KeepDocs(_, _)
KeepDocs(i, keep) ==
    IF i > Len(KB) THEN <<>>
    ELSE (IF i \in keep THEN <<KB[i]>> ELSE <<>>) \o KeepDocs(i + 1, keep)

\* a variant of find_matching_docs that keeps every document
find_matching_docs_of_whole_kb(constraints) == KeepDocs(1, 1..Len(KB))

\* [doc for doc in self._kb if not get_conflict_keys(constraints, doc)]
find_matching_docs(constraints) ==
    LET conflicts == DocConflicts(constraints)
    IN  KeepDocs(1, {i \in 1..Len(KB) : conflicts[i] = {}})

\* a variant of find_matching_value that takes the value from any document
find_matching_value_of_any_document(key, constraints) ==
    LET documents == find_matching_docs(constraints)
    IN  IF documents = <<>> THEN {NMA_VALUE}
        ELSE {str(KB[i][key]) : i \in 1..Len(KB)}

\* the values random.choice may return in find_matching_value(key, constraints)
find_matching_value(key, constraints) ==
    LET documents == find_matching_docs(constraints)
    IN  IF documents = <<>> THEN {NMA_VALUE}
        ELSE {str(documents[i][key]) : i \in 1..Len(documents)}

\* count_matches(constraints): a dict over the constraint keys plus MA
count_matches(constraints) ==
    [x \in DOMAIN constraints \cup {MA} |->
        IF x = MA THEN Len(find_matching_docs(constraints))
        ELSE IF constraints[x] = OWT THEN Len(KB)
        ELSE Len(find_matching_docs(x :> constraints[x]))]

check_goal_proposal_consistency(goal_proposal, constraints) ==
    get_conflict_keys(constraints, find_matching_docs(GOAL_KEY :> goal_proposal)[1]) = {}

(***************************************************************************)
(* KBManager.py: the memoized queries.  self._cache holds three            *)
(* defaultdicts; looking a key up inserts the empty default for it.        *)
(* kb_call records the last query: its name, the constraints as the list   *)
(* of their items in insertion order, the key asked for, and the list, the *)
(* value or the dict it returned.                                          *)
(***************************************************************************)
(***************************************************************************)
(* Calls of get_conflict_keys: user informs or constraints against a       *)
(* document or the agent's informs (StateTracker, RBAgent, KBManager), and *)
(* the agent's informs against the informs of a goal (UserSimulator)       *)
(***************************************************************************)
VARIABLE mt_call

\* a call of get_conflict_keys
GetConflictKeys ==
    LET MatchCalls ==
            LET n3 == S(<<"3">>)
                n5 == S(<<"5">>)
                n10 == S(<<"1","0">>)
                n11 == S(<<"1","1">>)
                y2015 == S(<<"2","0","1","5">>)
                y2018 == S(<<"2","0","1","8">>)
                y2019 == S(<<"2","0","1","9">>)
                Without(d, x) == [y \in DOMAIN d \ {x} |-> d[y]]
                UserInforms ==
                    { EmptyDict,
                      "min_num_citations" :> n5,
                      "min_num_citations" :> n11,
                      "min_num_citations" :> I(5),
                      "min_publication_year" :> y2019,
                      "max_publication_year" :> y2019,
                      ("min_publication_year" :> y2015) @@ ("max_publication_year" :> y2019),
                      "publication_year" :> y2018,
                      "authors" :> S(<<"a","l">>),
                      "keywords" :> S(<<"a","i">>),
                      "content_type" :> S(<<"B","o","o","k","s">>),
                      ("authors" :> S(<<"B","o">>)) @@ ("min_num_citations" :> n5),
                      ("authors" :> OWT) @@ ("min_num_citations" :> OWT) @@ ("keywords" :> OWT),
                      "min_num_citations" :> S(<<"b","o","o","k","s">>) }
                Contexts ==
                    { EmptyDict, KB[1], KB[2],
                      Without(KB[1], "num_citations"),
                      Without(KB[2], "publication_year"),
                      "num_citations" :> n3,
                      "num_citations" :> n10,
                      "publication_year" :> y2018,
                      "authors" :> S(<<"A","l",","," ","B","o">>),
                      "abstract" :> S(<<"m","l">>) }
                AgentInforms ==
                    { "num_citations" :> n10,
                      "publication_year" :> y2018,
                      ("authors" :> S(<<"A","l">>)) @@ ("num_citations" :> n3) }
                GoalInforms ==
                    { "min_num_citations" :> I(5),
                      ("min_publication_year" :> I(2019)) @@ ("authors" :> OWT),
                      ("num_citations" :> OWT) @@ ("max_publication_year" :> I(2015)) }
            IN  {[inform |-> c[1], context |-> c[2]] :
                    c \in (UserInforms \X Contexts) \cup (AgentInforms \X GoalInforms)}
    IN  \E c \in MatchCalls :
           mt_call' = [op |-> "get_conflict_keys", inform |-> c.inform,
                       context |-> c.context,
                       keys |-> get_conflict_keys(c.inform, c.context)]

VARIABLES kb_cache, kb_call, kb_ncalls

\* at most MaxCalls calls are made on the tracker between two resets, and on
\* a knowledge-base manager
MaxCalls == 3

\* a variant of hashable that forgets the values of the constraints
hashable_keys_only(constraints) == {<<x, NoValue>> : x \in DOMAIN constraints}

\* frozenset(constraints.items())
hashable(constraints) == {<<x, constraints[x]>> : x \in DOMAIN constraints}

\* KBManager.find_matching_docs on the cache: the cache afterwards, the list
\* returned and whether the call raised.  The field writes of the cache is
\* history: how many times the assignment to the documents entry of a key
\* was executed.
find_matching_docs_cached(cache, constraints) ==
    LET hashable_constraints == hashable(constraints)
        written == IF hashable_constraints \in DOMAIN cache.writes
                   THEN cache.writes[hashable_constraints] ELSE 0
        \* the call, given the list the cache holds for the key (empty after
        \* the lookup of a missing key) and the outcome of the filter
        Call(cached, raised, filtered) ==
            IF cached # <<>>
            THEN [cache |-> cache, ret |-> cached, raised |-> FALSE]
            ELSE [cache |-> [cache EXCEPT
                                !.documents =
                                    Update(@, hashable_constraints :> filtered),
                                !.writes =
                                    IF raised THEN @
                                    ELSE Update(@, hashable_constraints :> (written + 1))],
                  ret |-> filtered, raised |-> raised]
    IN  Call(IF hashable_constraints \in DOMAIN cache.documents
             THEN cache.documents[hashable_constraints] ELSE <<>>,
             find_matching_docs_raises(constraints),
             IF find_matching_docs_raises(constraints) THEN <<>>
             ELSE find_matching_docs(constraints))

\* the constraints the queries of the model are made with, each as the list
\* of its items and as the dict they make: none, words one or both
\* documents' authors have, a year one document has, a content type no
\* document has, the wildcard, a citation bound that is not a number, and
\* two insertion orders of the same dict
KbQueries ==
    LET al == <<"authors", S(<<"a","l">>)>>
        bo == <<"authors", S(<<"B","o">>)>>
        year == <<"publication_year", S(<<"2","0","1","8">>)>>
        books == <<"content_type", S(<<"B","o","o","k","s">>)>>
        any == <<"open_access", OWT>>
        nan == <<"min_num_citations", S(<<"b","o","o","k","s">>)>>
        \* dict(items), for items of distinct keys
        dict(items) ==
            [x \in {items[i][1] : i \in 1..Len(items)} |->
                items[CHOOSE i \in 1..Len(items) : items[i][1] = x][2]]
    IN  {[items |-> items, constraints |-> dict(items)] :
            items \in {<<>>, <<al>>, <<bo>>, <<books>>, <<al, year>>, <<year, al>>,
                       <<bo, any>>, <<nan>>}}

\* a call of find_matching_docs
KBFindMatchingDocs ==
    /\ kb_ncalls < MaxCalls
    /\ \E q \in KbQueries :
          \E r \in {find_matching_docs_cached(kb_cache, q.constraints)} :
             /\ kb_cache' = r.cache
             /\ kb_call' = [op |-> "find_matching_docs", items |-> q.items,
                            key |-> "", docs |-> r.ret, value |-> NoValue,
                            count |-> EmptyDict, raised |-> r.raised]
    /\ kb_ncalls' = kb_ncalls + 1

\* a variant of KBFindMatchingValue that takes the value from the first
\* document of the knowledge base when no document matches
KBFindMatchingValue_never_no_match ==
    /\ kb_ncalls < MaxCalls
    /\ \E q \in KbQueries, key \in {GOAL_KEY, "publication_year"} :
          \E documents \in {find_matching_docs_cached(kb_cache, q.constraints)} :
             /\ kb_cache' = documents.cache
             /\ kb_call' = [op |-> "find_matching_value", items |-> q.items,
                            key |-> key, docs |-> <<>>,
                            value |-> IF documents.ret = <<>> THEN str(KB[1][key])
                                      ELSE str(documents.ret[1][key]),
                            count |-> EmptyDict, raised |-> documents.raised]
    /\ kb_ncalls' = kb_ncalls + 1

\* a call of find_matching_value, for a key whose values are strings and
\* one whose values are ints
KBFindMatchingValue ==
    /\ kb_ncalls < MaxCalls
    /\ \E q \in KbQueries, key \in {GOAL_KEY, "publication_year"} :
          LET cache_key == <<key, hashable(q.constraints)>>
              cached == IF cache_key \in DOMAIN kb_cache.values
                        THEN kb_cache.values[cache_key] ELSE <<>>
              \* the lookup inserted the empty list
              looked == [kb_cache EXCEPT !.values = Update(@, cache_key :> cached)]
              call == [op |-> "find_matching_value", items |-> q.items, key |-> key,
                       docs |-> <<>>, value |-> NoValue, count |-> EmptyDict,
                       raised |-> FALSE]
          IN  IF cached # <<>>
              THEN /\ kb_cache' = kb_cache
                   /\ \E i \in 1..Len(cached) :
                         kb_call' = [call EXCEPT !.value = cached[i]]
              ELSE \E documents \in {find_matching_docs_cached(looked, q.constraints)} :
                      IF documents.raised
                      THEN /\ kb_cache' = documents.cache
                           /\ kb_call' = [call EXCEPT !.raised = TRUE]
                      ELSE \E values \in
                               {IF documents.ret = <<>> THEN <<NMA_VALUE>>
                                ELSE [i \in 1..Len(documents.ret) |->
                                         str(documents.ret[i][key])]} :
                              /\ kb_cache' = [documents.cache EXCEPT !.values =
                                                 Update(@, cache_key :> values)]
                              /\ \E i \in 1..Len(values) :
                                    kb_call' = [call EXCEPT !.value = values[i]]
    /\ kb_ncalls' = kb_ncalls + 1

\* the loop for k, v in constraints.items() of count_matches, from the i-th
\* item on: the cache, the dict and whether a query raised
RECURSIVE count_matches_loop(_, _, _)
count_matches_loop(q, i, acc) ==
    IF i > Len(q.items) \/ acc.raised THEN acc
    ELSE LET k == q.items[i][1]
             \* match_dict[k] = len(self.find_matching_docs({k: v}))
             Counted(one) == [cache |-> one.cache,
                              count |-> Update(acc.count, k :> Len(one.ret)),
                              raised |-> one.raised]
         IN  count_matches_loop(q, i + 1,
                 IF q.constraints[k] = OWT
                 THEN [acc EXCEPT !.count = Update(@, k :> Len(KB))]
                 ELSE Counted(find_matching_docs_cached(acc.cache,
                                                        k :> q.constraints[k])))

\* a variant of KBCountMatches that counts, as matching all constraints, the
\* documents that match the first of them
KBCountMatches_first_only ==
    /\ kb_ncalls < MaxCalls
    /\ \E q \in KbQueries :
          \E all \in {find_matching_docs_cached(kb_cache,
                          IF q.items = <<>> THEN EmptyDict
                          ELSE q.items[1][1] :> q.items[1][2])} :
             /\ kb_cache' = all.cache
             /\ kb_call' = [op |-> "count_matches", items |-> q.items, key |-> "",
                            docs |-> <<>>, value |-> NoValue,
                            count |-> (MA :> Len(all.ret)), raised |-> all.raised]
    /\ kb_ncalls' = kb_ncalls + 1

\* a call of count_matches
KBCountMatches ==
    /\ kb_ncalls < MaxCalls
    /\ \E q \in KbQueries :
          LET hashable_constraints == hashable(q.constraints)
              cached == IF hashable_constraints \in DOMAIN kb_cache.count
                        THEN kb_cache.count[hashable_constraints] ELSE EmptyDict
              \* the lookup inserted the empty dict
              looked == [kb_cache EXCEPT !.count =
                            Update(@, hashable_constraints :> cached)]
              \* match_dict[MA] = len(self.find_matching_docs(constraints))
              First(all) == [cache |-> all.cache, count |-> (MA :> Len(all.ret)),
                             raised |-> all.raised]
              call == [op |-> "count_matches", items |-> q.items, key |-> "",
                       docs |-> <<>>, value |-> NoValue, count |-> EmptyDict,
                       raised |-> FALSE]
          IN  IF cached # EmptyDict
              THEN /\ kb_cache' = kb_cache
                   /\ kb_call' = [call EXCEPT !.count = cached]
              ELSE \E match_dict \in
                       {count_matches_loop(q, 1,
                            First(find_matching_docs_cached(looked, q.constraints)))} :
                      IF match_dict.raised
                      THEN /\ kb_cache' = match_dict.cache
                           /\ kb_call' = [call EXCEPT !.raised = TRUE]
                      ELSE /\ kb_cache' = [match_dict.cache EXCEPT !.count =
                                              Update(@, hashable_constraints :>
                                                        match_dict.count)]
                           /\ kb_call' = [call EXCEPT !.count = match_dict.count]
    /\ kb_ncalls' = kb_ncalls + 1

(***************************************************************************)
(* StateTracker.py                                                         *)
(***************************************************************************)
VARIABLES
    st_curr_agt_inf,      \* StateTracker._curr_agt_inf
    st_curr_usr_inf,      \* StateTracker._curr_usr_inf
    st_curr_constraints,  \* StateTracker._curr_constraints
    st_curr_usr_req,      \* StateTracker._curr_usr_req
    st_last_agt_act,      \* StateTracker._last_agt_act
    st_last_usr_act,      \* StateTracker._last_usr_act
    st_call,              \* the last call on the tracker: its name, argument, outcome
                          \* and the agent informs it found
    st_ncalls             \* the number of calls since the last reset

stVars == <<st_curr_agt_inf, st_curr_usr_inf, st_curr_constraints, st_curr_usr_req,
            st_last_agt_act, st_last_usr_act, st_call, st_ncalls>>

StCall(op, usr, agt, ret, raised) ==
    [op |-> op, usr |-> usr, agt |-> agt, ret |-> ret, raised |-> raised,
     before |-> st_curr_agt_inf]

\* StateTracker.reset (and __init__, which only calls reset)
StReset ==
    /\ st_curr_agt_inf' = EmptyDict
    /\ st_curr_usr_inf' = EmptyDict
    /\ st_curr_constraints' = EmptyDict
    /\ st_curr_usr_req' = {}
    /\ st_last_agt_act' = None
    /\ st_last_usr_act' = NoUsrAct
    /\ st_call' = StCall("reset", NoUsrAct, None, None, FALSE)

\* get_state raises when a list.index fails, when the knowledge base is
\* empty (value / kb_size) or when count_matches raises
get_state_raises(agt_inf, usr_inf, constraints, usr_req, last_agt, last_usr) ==
    LET \* count_matches(constraints) raises when one of its queries does
        count_matches_raises ==
            \/ find_matching_docs_raises(constraints)
            \/ \E x \in DOMAIN constraints :
                  constraints[x] # OWT /\ find_matching_docs_raises(x :> constraints[x])
    IN  \/ ~(DOMAIN usr_inf \subseteq Range(USR_INF_KEYS))
        \/ ~(usr_req \subseteq Range(USR_REQ_KEYS))
        \/ ~(DOMAIN agt_inf \subseteq Range(AGT_INF_KEYS))
        \/ /\ last_usr.kind = "dict"
           /\ \/ ~(DOMAIN last_usr.inf \subseteq Range(USR_INF_KEYS))
              \/ ~(Range(last_usr.req) \subseteq Range(USR_REQ_KEYS))
        \/ /\ last_agt.kind \in {"act2", "act3"}
           /\ IF last_agt.intent = INF THEN last_agt.key \notin Range(AGT_INF_KEYS)
              ELSE last_agt.key \notin Range(AGT_REQ_KEYS)
        \/ count_matches_raises
        \/ ~(DOMAIN constraints \subseteq Range(ALL_KEYS))
        \/ Len(KB) = 0    \* get_kb_size()

\* StateTracker.get_state: the concatenation of the eleven representations;
\* an entry is the fraction num / den
get_state(agt_inf, usr_inf, constraints, usr_req, last_agt, last_usr) ==
    LET \* one-hot vector over the list keys with the positions of the keys
        \* of set on
        OneHot(keys, set) == [i \in 1..Len(keys) |-> IF keys[i] \in set THEN 1 ELSE 0]
        \* value / kb_size of the absolute match-count representation
        Frac(num, den) == [num |-> num, den |-> den]
        curr_usr_inf_rep == OneHot(USR_INF_KEYS, DOMAIN usr_inf)
        curr_usr_req_rep == OneHot(USR_REQ_KEYS, usr_req)
        curr_agt_inf_rep == OneHot(AGT_INF_KEYS, DOMAIN agt_inf)
        last_usr_act_rep ==
            OneHot(USR_SPEC_ACTS, IF last_usr.kind = "spec" THEN {last_usr.spec} ELSE {})
        last_usr_act_inf_rep ==
            OneHot(USR_INF_KEYS, IF last_usr.kind = "dict" THEN DOMAIN last_usr.inf ELSE {})
        last_usr_act_req_rep ==
            OneHot(USR_REQ_KEYS, IF last_usr.kind = "dict" THEN Range(last_usr.req) ELSE {})
        last_agt_act_rep ==
            \* over AGT_SPEC_ACTS
            OneHot(<<NMA, WCP>>, IF last_agt.kind = "spec" THEN {last_agt.intent} ELSE {})
        last_agt_act_inf_rep ==
            OneHot(AGT_INF_KEYS,
                   IF last_agt.kind \in {"act2", "act3"} /\ last_agt.intent = INF
                   THEN {last_agt.key} ELSE {})
        last_agt_act_req_rep ==
            OneHot(AGT_REQ_KEYS,
                   IF last_agt.kind \in {"act2", "act3"} /\ last_agt.intent # INF
                   THEN {last_agt.key} ELSE {})
        expanded_keys == ALL_KEYS \o <<MA>>
        kb_count == count_matches(constraints)
        kb_size == Len(KB)    \* get_kb_size()
        kb_count_abs_rep ==
            [i \in 1..Len(expanded_keys) |->
                IF expanded_keys[i] \in DOMAIN kb_count
                THEN Frac(kb_count[expanded_keys[i]], kb_size) ELSE Frac(0, 1)]
        kb_count_bool_rep ==
            [i \in 1..Len(expanded_keys) |->
                IF expanded_keys[i] \in DOMAIN kb_count /\ kb_count[expanded_keys[i]] # 0
                THEN 1 ELSE 0]
        Ones(rep) == [i \in 1..Len(rep) |-> Frac(rep[i], 1)]
    IN  Ones(curr_usr_inf_rep) \o Ones(curr_usr_req_rep) \o Ones(curr_agt_inf_rep)
        \o Ones(last_usr_act_rep) \o Ones(last_usr_act_inf_rep) \o Ones(last_usr_act_req_rep)
        \o Ones(last_agt_act_rep) \o Ones(last_agt_act_inf_rep) \o Ones(last_agt_act_req_rep)
        \o kb_count_abs_rep \o Ones(kb_count_bool_rep)

\* get_state_dim() as called by DialogueManager.__init__, right after the
\* tracker's construction
get_state_dim == Len(get_state(EmptyDict, EmptyDict, EmptyDict, {}, None, NoUsrAct))

\* a variant of UserActResets in which only a REJECT resets the agent informs
UserActResets_reject_only(user_action, agt_inf) ==
    user_action = UsrSpec(RJCT)

\* a variant of UserActResets in which THANKS resets the agent informs too
UserActResets_thanks_too(user_action, agt_inf) ==
    \/ user_action.kind = "spec"
    \/ /\ user_action.kind = "dict"
       /\ get_conflict_keys(user_action.inf, agt_inf) # {}

\* does the user act make process_user_action reset the agent informs
UserActResets(user_action, agt_inf) ==
    \/ user_action = UsrSpec(RJCT)
    \/ /\ user_action.kind = "dict"
       /\ get_conflict_keys(user_action.inf, agt_inf) # {}

\* StateTracker.process_user_action
process_user_action(user_action) ==
    IF user_action.kind = "dict"
       /\ Raises(get_conflict_keys(user_action.inf, st_curr_agt_inf))
    THEN \* the exception leaves the tracker as it was
         /\ UNCHANGED <<st_curr_agt_inf, st_curr_usr_inf, st_curr_constraints,
                        st_curr_usr_req, st_last_agt_act, st_last_usr_act>>
         /\ st_call' = StCall("user", user_action, None, None, TRUE)
    ELSE LET resets == UserActResets(user_action, st_curr_agt_inf)
             \* _reset_agent_informs
             agt_inf1 == IF resets THEN EmptyDict ELSE st_curr_agt_inf
             constraints1 == IF resets THEN st_curr_usr_inf ELSE st_curr_constraints
         IN  /\ st_curr_agt_inf' = agt_inf1
             /\ IF user_action.kind = "dict"
                THEN /\ st_curr_usr_inf' = Update(st_curr_usr_inf, user_action.inf)
                     /\ st_curr_constraints' = Update(constraints1, user_action.inf)
                     /\ st_curr_usr_req' = st_curr_usr_req \cup Range(user_action.req)
                ELSE /\ st_curr_constraints' = constraints1
                     /\ UNCHANGED <<st_curr_usr_inf, st_curr_usr_req>>
             /\ st_last_usr_act' = user_action
             /\ UNCHANGED st_last_agt_act
             /\ st_call' = StCall("user", user_action, None, None, FALSE)

\* a variant of AgentInformOutcome that never withdraws a proposal
AgentInformOutcome_no_withdrawal(agent_action, popped, value) ==
    IF value = NMA_VALUE
    THEN /\ st_curr_constraints' = popped
         /\ st_last_agt_act' = AgtSpec(NMA)
         /\ UNCHANGED st_curr_agt_inf
    ELSE /\ st_curr_agt_inf' = Update(st_curr_agt_inf, agent_action.key :> value)
         /\ st_curr_constraints' = Update(popped, agent_action.key :> value)
         /\ st_last_agt_act' = Act3(INF, agent_action.key, value)

\* StateTracker.process_agent_action on an INFORM for which the knowledge
\* base query answers value
AgentInformOutcome(agent_action, popped, value) ==
    IF value = NMA_VALUE
    THEN IF st_curr_agt_inf # EmptyDict
         THEN /\ st_curr_agt_inf' = EmptyDict
              /\ st_curr_constraints' = st_curr_usr_inf
              /\ st_last_agt_act' = AgtSpec(WCP)
         ELSE /\ st_curr_constraints' = popped
              /\ st_last_agt_act' = AgtSpec(NMA)
              /\ UNCHANGED st_curr_agt_inf
    ELSE /\ st_curr_agt_inf' = Update(st_curr_agt_inf, agent_action.key :> value)
         /\ st_curr_constraints' = Update(popped, agent_action.key :> value)
         /\ st_last_agt_act' = Act3(INF, agent_action.key, value)

\* StateTracker.process_agent_action
process_agent_action(agent_action) ==
    IF agent_action.intent = INF
    THEN LET popped == Pop(st_curr_constraints, agent_action.key) IN
         IF find_matching_docs_raises(popped)
         THEN \* the exception leaves the key popped from the constraints
              /\ st_curr_constraints' = popped
              /\ UNCHANGED <<st_curr_agt_inf, st_curr_usr_inf, st_curr_usr_req,
                             st_last_agt_act, st_last_usr_act>>
              /\ st_call' = StCall("agent", NoUsrAct, agent_action, None, TRUE)
         ELSE /\ \E value \in find_matching_value(agent_action.key, popped) :
                    AgentInformOutcome(agent_action, popped, value)
              /\ UNCHANGED <<st_curr_usr_inf, st_curr_usr_req, st_last_usr_act>>
              /\ st_call' = StCall("agent", NoUsrAct, agent_action, st_last_agt_act', FALSE)
    ELSE /\ st_last_agt_act' = agent_action
         /\ UNCHANGED <<st_curr_agt_inf, st_curr_usr_inf, st_curr_constraints,
                        st_curr_usr_req, st_last_usr_act>>
         /\ st_call' = StCall("agent", NoUsrAct, agent_action, agent_action, FALSE)

(***************************************************************************)
(* UserSimulator.py                                                        *)
(***************************************************************************)
VARIABLES
    us_goal,                 \* UserSimulator._goal
    us_curr_agt_inf,         \* UserSimulator._curr_agt_inf
    us_already_matched_inf,  \* UserSimulator._already_matched_inf
    us_not_sent_inf,         \* UserSimulator._not_sent_inf
    us_not_answ_req,         \* UserSimulator._not_answ_req
    us_satisfied,            \* UserSimulator._satisfied
    us_round,                \* UserSimulator._round
    us_call,                 \* the last call on the simulator and what it returned
    us_pc                    \* where the episode of run_episode stands

usVars == <<us_goal, us_curr_agt_inf, us_already_matched_inf, us_not_sent_inf,
            us_not_answ_req, us_satisfied, us_round, us_call, us_pc>>

\* UserSimulator.patience (a constructor argument)
patience == 3

\* the user goals (data/user_goals.json) as utils/generate_user_goals.py builds
\* them from a reference document: at least one free-text inform, numeric
\* informs as digit strs, the requests disjoint from the informs
Goals ==
    <<[inf |-> ("keywords" :> S(<<"a","i">>)) @@
               ("min_publication_year" :> S(<<"2","0","1","9">>)),
       req |-> <<"authors", "publication_year">>],
      [inf |-> ("authors" :> S(<<"A","l",","," ","B","o">>)), req |-> <<>>],
      [inf |-> ("publication_title" :> S(<<"C","o">>)) @@
               ("min_num_citations" :> S(<<"3">>)),
       req |-> <<"num_citations">>],
      [inf |-> ("keywords" :> S(<<"m","l">>)) @@
               ("publication_year" :> S(<<"2","0","1","8">>)),
       req |-> <<>>]>>

(***************************************************************************)
(* Python floats: a non-negative IEEE 754 double is a record of bits and   *)
(* scale, the natural number whose binary digits are bits (most            *)
(* significant first, no leading zero, at most 53 of them) divided by      *)
(* 2^scale.                                                                *)
(***************************************************************************)
MantissaBits == 53

\* the definitions on bit strings are written without deep recursion
StripZeros(b) ==
    IF \A i \in 1..Len(b) : b[i] = 0 THEN <<>>
    ELSE LET first == CHOOSE i \in 1..Len(b) :
                          b[i] = 1 /\ \A j \in 1..(i - 1) : b[j] = 0
         IN  SubSeq(b, first, Len(b))

Zeros(n) == IF n <= 0 THEN <<>> ELSE [i \in 1..n |-> 0]

\* a + b on bit strings; the carry into a position comes from the nearest
\* position to its right that does not merely propagate
BitsAdd(a, b) ==
    LET n == 1 + (IF Len(a) > Len(b) THEN Len(a) ELSE Len(b))
        x == Zeros(n - Len(a)) \o a
        y == Zeros(n - Len(b)) \o b
        carry(i) == \E j \in (i + 1)..n :
                        /\ x[j] + y[j] = 2
                        /\ \A k \in (i + 1)..(j - 1) : x[k] + y[k] = 1
    IN  StripZeros([i \in 1..n |-> (x[i] + y[i] + (IF carry(i) THEN 1 ELSE 0)) % 2])

\* round to nearest, ties to even, on at most MantissaBits significant bits
RoundToDouble(bits, scale) ==
    LET b == StripZeros(bits) IN
    IF Len(b) <= MantissaBits THEN [bits |-> b, scale |-> scale]
    ELSE LET drop == Len(b) - MantissaBits
             kept == SubSeq(b, 1, MantissaBits)
             round_bit == b[MantissaBits + 1]
             sticky == \E i \in (MantissaBits + 2)..Len(b) : b[i] = 1
             up == round_bit = 1 /\ (sticky \/ kept[MantissaBits] = 1)
             k1 == IF up THEN BitsAdd(kept, <<1>>) ELSE kept
         IN  IF Len(k1) > MantissaBits
             THEN [bits |-> SubSeq(k1, 1, MantissaBits), scale |-> scale - drop - 1]
             ELSE [bits |-> k1, scale |-> scale - drop]

\* 2^k modulo m
RECURSIVE Pow2Mod(_, _)
Pow2Mod(k, m) ==
    IF k = 0 THEN 1 % m
    ELSE LET h == Pow2Mod(k \div 2, m)
         IN  (h * h * (IF k % 2 = 1 THEN 2 ELSE 1)) % m

\* n / d of two ints with 0 <= n <= d, 0 < d: the correctly rounded quotient,
\* from the first MantissaBits + 1 bits of the quotient and whether the rest
\* of the division is zero
FloatDiv(n, d) ==
    IF n = 0 THEN [bits |-> <<>>, scale |-> 0]
    ELSE LET \* the smallest e with n * 2^e >= d
             e == CHOOSE k \in 0..d : n * (2^k) >= d /\ (k = 0 \/ n * (2^(k - 1)) < d)
             r == n * (2^e)
             nbits == MantissaBits + 1
             q == [i \in 1..nbits |-> ((r * Pow2Mod(i - 1, 2 * d)) % (2 * d)) \div d]
             sticky == IF (r * Pow2Mod(nbits - 1, d)) % d # 0 THEN <<1>> ELSE <<0>>
         IN  RoundToDouble(q \o sticky, e + nbits)

RECURSIVE BitsTimes(_, _)
BitsTimes(b, n) ==
    IF n = 0 THEN <<>>
    ELSE BitsAdd(IF n % 2 = 1 THEN b ELSE <<>>, StripZeros(BitsTimes(b, n \div 2) \o <<0>>))

\* x * n of a float and a small non-negative int
FloatTimesInt(x, n) == RoundToDouble(BitsTimes(x.bits, n), x.scale)

\* the int of a short bit string
RECURSIVE BitsToInt(_)
BitsToInt(b) ==
    IF b = <<>> THEN 0 ELSE 2 * BitsToInt(SubSeq(b, 1, Len(b) - 1)) + b[Len(b)]

\* a _filter_req_keys that lets every key through
filter_req_keys_unfiltered(keys, agt_inf) == keys

\* _filter_req_keys on a set of keys
filter_req_keys(keys, agt_inf) ==
    IF agt_inf # EmptyDict THEN keys
    ELSE {x \in keys : x \notin Range(USRSIM_REQ_ONLY_AFTER_AGT_INF)}

\* the simulator's fields a call works on
UsState(agt_inf, matched, not_sent, not_answ, satisfied) ==
    [agt_inf |-> agt_inf, matched |-> matched, not_sent |-> not_sent,
     not_answ |-> not_answ, satisfied |-> satisfied]

\* a _reset_agent_informs that forgets the keys already matched
us_reset_agent_informs_forgets_matched(goal, st) ==
    UsState(EmptyDict, {}, st.not_sent, Range(goal.req) \cup {GOAL_KEY}, st.satisfied)

\* a _reset_agent_informs that leaves the answered requests answered
us_reset_agent_informs_keeps_answered(goal, st) ==
    UsState(EmptyDict, {}, st.not_sent \cup st.matched, st.not_answ, st.satisfied)

\* a _reset_agent_informs that keeps the keys already matched as matched
us_reset_agent_informs_keeps_matched(goal, st) ==
    UsState(EmptyDict, st.matched, st.not_sent \cup st.matched,
            Range(goal.req) \cup {GOAL_KEY}, st.satisfied)

\* _reset_agent_informs
us_reset_agent_informs(goal, st) ==
    UsState(EmptyDict, {}, st.not_sent \cup st.matched,
            Range(goal.req) \cup {GOAL_KEY}, st.satisfied)

\* a _pick_random_action whose last case leaves self._action as it is
pick_random_action_without_thanks(goal, st) ==
    LET requestable_keys == filter_req_keys(st.not_answ, st.agt_inf)
    IN  {UsrDict(EmptyDict, <<key>>) :
            key \in st.not_sent \cap filter_req_keys(Range(USR_REQ_KEYS), st.agt_inf)}
        \cup {UsrDict(key :> goal.inf[key], <<>>) : key \in st.not_sent}
        \cup {UsrDict(EmptyDict, <<key>>) : key \in requestable_keys}
        \cup {UsrDict(EmptyDict, <<>>)}

\* the acts _pick_random_action may leave in self._action
pick_random_action(goal, st) ==
    LET requestable_keys == filter_req_keys(st.not_answ, st.agt_inf)
    IN  {UsrDict(EmptyDict, <<key>>) :
            key \in st.not_sent \cap filter_req_keys(Range(USR_REQ_KEYS), st.agt_inf)}
        \cup {UsrDict(key :> goal.inf[key], <<>>) : key \in st.not_sent}
        \cup {UsrDict(EmptyDict, <<key>>) : key \in requestable_keys}
        \cup {UsrSpec(THX)}

\* a variant of ActiveConstrainingKeys that finds no constraining key
ActiveConstrainingKeys_none(goal, key) == {}

\* a variant of ActiveConstrainingKeys that looks the other way: the goal
\* informs that key range-constrains
ActiveConstrainingKeys_constrained(goal, key) ==
    IF key \in DOMAIN CONSTRAINING_KEYS_MAPS
    THEN {CONSTRAINING_KEYS_MAPS[key][1]} \cap DOMAIN goal.inf
    ELSE {}

\* the goal informs that range-constrain key
ActiveConstrainingKeys(goal, key) ==
    IF key \in DOMAIN CONSTRAINED_KEYS_MAPS
    THEN {CONSTRAINED_KEYS_MAPS[key][i][1] : i \in 1..Len(CONSTRAINED_KEYS_MAPS[key])}
         \cap DOMAIN goal.inf
    ELSE {}

\* _response_to_inform: the pairs <<fields afterwards, act>> it may produce
response_to_inform(goal, st, inf_key, inf_value) ==
    LET conflict_keys == get_conflict_keys(inf_key :> inf_value, goal.inf)
    IN  IF conflict_keys # {}
        THEN LET r == us_reset_agent_informs(goal, st)
                 st1 == [r EXCEPT !.not_sent = r.not_sent \cup conflict_keys]
             IN  {<<st1, UsrDict(key :> goal.inf[key], <<>>)>> : key \in conflict_keys}
                 \cup {<<st1, UsrSpec(RJCT)>>}
        ELSE LET st0 == IF inf_key \in DOMAIN st.agt_inf /\ st.agt_inf[inf_key] # inf_value
                        THEN us_reset_agent_informs(goal, st) ELSE st
                 constraining_keys == ActiveConstrainingKeys(goal, inf_key)
                 matched1 == st0.matched \cup constraining_keys
                 not_sent1 == st0.not_sent \ constraining_keys
                 matched2 == IF inf_key \in DOMAIN goal.inf /\ inf_key \in not_sent1
                             THEN matched1 \cup {inf_key} ELSE matched1
                 not_sent2 == not_sent1 \ {inf_key}
                 not_answ2 == st0.not_answ \ {inf_key}
                 st2 == UsState(Update(st0.agt_inf, inf_key :> inf_value), matched2, not_sent2,
                                not_answ2, (not_answ2 \cup not_sent2) = {})
             IN  {<<st2, a>> : a \in pick_random_action(goal, st2)}

\* _response_to_request: the acts it may leave in self._action
response_to_request(goal, st, req_key) ==
    LET active_constraining_keys == ActiveConstrainingKeys(goal, req_key)
    IN  IF req_key \in DOMAIN goal.inf
        THEN {UsrDict(req_key :> goal.inf[req_key], <<>>)}
        ELSE IF active_constraining_keys # {}
        THEN {UsrDict([ack \in active_constraining_keys |-> goal.inf[ack]], <<>>)}
        ELSE IF req_key \in Range(goal.req)
        THEN (IF req_key \in DOMAIN st.agt_inf
              THEN {UsrDict(req_key :> st.agt_inf[req_key], <<>>)} ELSE {})
             \cup (IF req_key \in filter_req_keys(Range(goal.req), st.agt_inf)
                   THEN {UsrDict(EmptyDict, <<req_key>>)} ELSE {})
             \cup {UsrDict(req_key :> OWT, <<>>)}
        ELSE {UsrDict(req_key :> OWT, <<>>)}
             \cup {UsrDict(Update(req_key :> OWT, key :> goal.inf[key]), <<>>) :
                      key \in st.not_sent}

\* - round(weight * self.patience) of an unsuccessful end, in float
\* arithmetic, for every goal and every number of its requests not answered
\* and of its informs not sent
FailureRewards ==
    LET \* round(x) of a float below 2^31: the nearest int, a tie to the even one
        FloatRound(x) ==
            IF x.scale <= 0 THEN BitsToInt(x.bits \o Zeros(0 - x.scale))
            ELSE LET b == Zeros(x.scale - Len(x.bits)) \o x.bits
                     nint == Len(b) - x.scale
                     q == BitsToInt(SubSeq(b, 1, nint))
                     half == b[nint + 1]
                     rest == \E i \in (nint + 2)..Len(b) : b[i] = 1
                 IN  IF half = 0 THEN q
                     ELSE IF rest THEN q + 1
                     ELSE IF q % 2 = 0 THEN q ELSE q + 1
        \* x + y of two floats
        FloatAdd(x, y) ==
            LET s == IF x.scale > y.scale THEN x.scale ELSE y.scale
            IN  RoundToDouble(BitsAdd(x.bits \o Zeros(s - x.scale), y.bits \o Zeros(s - y.scale)), s)
    IN  [goal \in Range(Goals) |->
            [n_not_answ_reqs \in 0..(Len(goal.req) + 1) |->
                [n_not_sent_infs \in 0..Cardinality(DOMAIN goal.inf) |->
                    LET not_answered_ratio ==
                            FloatDiv(n_not_answ_reqs, Len(goal.req) + 1)
                        not_informed_ratio ==
                            FloatDiv(n_not_sent_infs, Cardinality(DOMAIN goal.inf))
                        weight == FloatAdd(not_answered_ratio, not_informed_ratio)
                    IN  0 - FloatRound(FloatTimesInt(weight, patience))]]]

\* a reward of an unsuccessful end that charges patience for every request
\* not answered and every inform not sent
FailureReward_per_missing_item(goal, not_answ, not_sent) ==
    0 - patience * (Cardinality(not_answ) + Cardinality(not_sent))

\* the reward of an unsuccessful end
FailureReward(goal, not_answ, not_sent) ==
    FailureRewards[goal][Cardinality(not_answ)][Cardinality(not_sent)]

UsRet(action, reward, done, success) ==
    [action |-> action, reward |-> reward, done |-> done, success |-> success]
UsCall(op, agt, ret) == [op |-> op, agt |-> agt, ret |-> ret]

\* UserSimulator.get_init_action
get_init_action ==
    LET \* the acts get_init_action may return for the goal
        InitActions(goal, agt_inf) ==
            LET compulsory == DOMAIN goal.inf \cap Range(USRSIM_INIT_INF)
                informs == IF compulsory # {} THEN {[x \in compulsory |-> goal.inf[x]]}
                           ELSE {x :> goal.inf[x] : x \in DOMAIN goal.inf}
                requestable_keys == filter_req_keys(Range(goal.req), agt_inf)
                requests == IF requestable_keys = {} THEN {<<>>}
                            ELSE {<<x>> : x \in requestable_keys}
            IN  {UsrDict(inf, req) : inf \in informs, req \in requests}
    IN  \E action \in InitActions(us_goal, us_curr_agt_inf) :
           /\ us_not_sent_inf' = us_not_sent_inf \ DOMAIN action.inf
           /\ us_call' = UsCall("init", None, UsRet(action, 0, FALSE, FALSE))
           /\ UNCHANGED <<us_goal, us_curr_agt_inf, us_already_matched_inf,
                          us_not_answ_req, us_satisfied, us_round>>

\* a variant of GoalProposalConsistent that checks the proposed document
\* against the goal only
GoalProposalConsistent_goal_only(goal, agt_inf) ==
    check_goal_proposal_consistency(agt_inf[GOAL_KEY], goal.inf)

\* the a-posteriori check of step on the proposed goal key
GoalProposalConsistent(goal, agt_inf) ==
    /\ check_goal_proposal_consistency(agt_inf[GOAL_KEY], goal.inf)
    /\ check_goal_proposal_consistency(agt_inf[GOAL_KEY], agt_inf)

\* a variant of StepDone that gives the user one round more than patience
StepDone_one_round_more(agent_action, round, satisfied) ==
    IF agent_action = AgtSpec(NMA) THEN TRUE
    ELSE round = patience + 1 \/ satisfied

\* a variant of StepDone in which NO MATCH AVAILABLE does not end the
\* episode by itself
StepDone_no_match_goes_on(agent_action, round, satisfied) ==
    round = patience \/ satisfied

\* is done set by step: the round/patience test or the satisfaction
StepDone(agent_action, round, satisfied) ==
    IF agent_action = AgtSpec(NMA) THEN TRUE
    ELSE round = patience \/ satisfied

\* a variant of StepReward in which a turn that does not end the episode
\* costs nothing
StepReward_free_turns(goal, done, satisfied, not_answ, not_sent) ==
    IF ~done THEN 0
    ELSE IF satisfied THEN 2 * patience + (Len(goal.req) + Cardinality(DOMAIN goal.inf))
    ELSE FailureReward(goal, not_answ, not_sent)

\* the reward step computes
StepReward(goal, done, satisfied, not_answ, not_sent) ==
    IF ~done THEN 0 - 1
    ELSE IF satisfied THEN 2 * patience + (Len(goal.req) + Cardinality(DOMAIN goal.inf))
    ELSE FailureReward(goal, not_answ, not_sent)

\* UserSimulator.step
step(agent_action) ==
    LET \* what one call of step may do, from the fields st and the round counter:
        \* the fields and the round afterwards and the tuple returned
        StepOutcomes(goal, st, round) ==
            LET round1 == round + 1
                empty_action == UsrDict(EmptyDict, <<>>)
                outcomes ==
                    IF agent_action = AgtSpec(WCP)
                    THEN LET r == us_reset_agent_informs(goal, st)
                         IN  {<<r, a>> : a \in pick_random_action(goal, r)}
                    ELSE IF agent_action.intent = INF
                    THEN response_to_inform(goal, st, agent_action.key, agent_action.value)
                    ELSE IF agent_action.intent = REQ
                    THEN {<<st, a>> : a \in response_to_request(goal, st, agent_action.key)}
                    ELSE {<<st, empty_action>>}
                Result(o) ==
                    LET st1 == o[1]
                        action == o[2]
                        done == StepDone(agent_action, round1, st1.satisfied)
                        satisfied1 == IF agent_action = AgtSpec(NMA) THEN FALSE
                                      ELSE st1.satisfied
                                           /\ GoalProposalConsistent(goal, st1.agt_inf)
                        not_sent1 == IF ~done /\ action.kind = "dict"
                                     THEN st1.not_sent \ DOMAIN action.inf ELSE st1.not_sent
                        reward == StepReward(goal, done, satisfied1, st1.not_answ, not_sent1)
                    IN  [st |-> [st1 EXCEPT !.not_sent = not_sent1, !.satisfied = satisfied1],
                         round |-> round1,
                         \* the fields when done is set: before the recheck of
                         \* self._satisfied and the discard of the keys the act sends
                         response |-> st1,
                         ret |-> UsRet(action, reward, done, satisfied1)]
            IN  {Result(o) : o \in outcomes}
    IN  \E r \in StepOutcomes(us_goal,
                              UsState(us_curr_agt_inf, us_already_matched_inf,
                                      us_not_sent_inf, us_not_answ_req, us_satisfied),
                              us_round) :
           /\ us_round' = r.round
           /\ us_curr_agt_inf' = r.st.agt_inf
           /\ us_already_matched_inf' = r.st.matched
           /\ us_not_sent_inf' = r.st.not_sent
           /\ us_not_answ_req' = r.st.not_answ
           /\ us_satisfied' = r.st.satisfied
           /\ us_call' = UsCall("step", agent_action, r.ret) @@ [response |-> r.response]
           /\ us_pc' = IF r.ret.done THEN "done" ELSE "running"
           /\ UNCHANGED us_goal

(***************************************************************************)
(* The simulator driven through episodes as run_episode drives it: reset,  *)
(* get_init_action, then one step per agent act until a step returns done. *)
(* The agent acts are the ones the tracker returns: a completed INFORM     *)
(* with the str of some document's field, a REQUEST, WITHDRAW CURRENT      *)
(* PROPOSALS or NO MATCH AVAILABLE.                                        *)
(***************************************************************************)
USReset ==
    LET \* UserSimulator.reset, with goal the one random.choice picks
        UsReset(goal) ==
            /\ us_goal' = goal
            /\ us_curr_agt_inf' = EmptyDict
            /\ us_already_matched_inf' = {}
            /\ us_not_sent_inf' = DOMAIN goal.inf
            /\ us_not_answ_req' = Range(goal.req) \cup {GOAL_KEY}
            /\ us_satisfied' = FALSE
            /\ us_round' = 0
            /\ us_call' = UsCall("reset", None, UsRet(NoUsrAct, 0, FALSE, FALSE))
    IN  /\ us_pc \in {"new", "done"}
        /\ \E g \in 1..Len(Goals) : UsReset(Goals[g])
        /\ us_pc' = "init"

USInitAction ==
    /\ us_pc = "init"
    /\ get_init_action
    /\ us_pc' = "running"

USStep ==
    LET \* the keys the agent of the model informs: the goal key, keys the
        \* goals inform, request or range-constrain, and one key no goal
        \* mentions
        inform_keys == {GOAL_KEY, "authors", "publication_year", "num_citations",
                        "publication_title", "open_access"}
        \* the keys the agent of the model requests: a goal inform, a goal
        \* request, a range-constrained key, two range-constraining keys,
        \* a key no goal mentions
        request_keys == {"keywords", "authors", "publication_year",
                         "min_num_citations", "min_publication_year", "content_type"}
        SimulatorAgentActs ==
            {Act3(INF, key, str(KB[d][key])) : key \in inform_keys, d \in 1..Len(KB)}
            \cup {Act2(REQ, key) : key \in request_keys}
            \cup {AgtSpec(WCP), AgtSpec(NMA)}
    IN  /\ us_pc = "running"
        /\ \E agent_action \in SimulatorAgentActs : step(agent_action)

(***************************************************************************)
(* DialogueManager.py (the experience buffers) and run.py                  *)
(***************************************************************************)
VARIABLES
    dm_rl_mem,          \* DialogueManager._rl_mem
    dm_warmup_mem,      \* DialogueManager._warmup_mem
    dm_call,            \* the call made on the buffers by the last step, if any
    ep_pc,              \* run_episode: "idle" outside of it, "loop" in its while loop
    ep_warmup,          \* run_episode's argument warmup
    ep_state,           \* run_episode's local state
    ep_agt_act_idx,     \* run_episode's local agt_act_idx
    ep_round,           \* the number of US.step calls of the episode
    ep_episode_reward,  \* run_episode's local episode_reward
    ep_ret,             \* what run_episode returned, if the last step was its return
    ep_rejected         \* whether add_experience turned down a tuple of the running episode

dmVars == <<dm_rl_mem, dm_warmup_mem, dm_call, ep_pc, ep_warmup, ep_state,
            ep_agt_act_idx, ep_round, ep_episode_reward, ep_ret, ep_rejected>>

\* DialogueManager.rl_mem_size and warmup_mem_size (constructor arguments)
rl_mem_size == 2
warmup_mem_size == 1

\* the state vectors and the action indices DialogueManager.step returns,
\* as tokens
EpStates == {0, 1}
EpActIdx == {0}

\* the rewards US.step returns, one for each value of done: -1 for a turn
\* that does not end the episode
EpRewards(done) == IF done THEN {0} ELSE {0 - 1}

\* a tuple that stores the state reached as the state left
Experience_storing_next_state_twice(state, action, reward, next_state, done) ==
    <<next_state, action, reward, next_state, done>>

\* the tuple add_experience stores
Experience(state, action, reward, next_state, done) ==
    <<state, action, reward, next_state, done>>

DmCall(op, warmup, experience, num, den, ret) ==
    [op |-> op, warmup |-> warmup, experience |-> experience,
     fraction |-> <<num, den>>, ret |-> ret]

\* a variant of memory_is_full that lets a buffer take one tuple more than
\* its size
memory_is_full_beyond_size(warmup_mem, rl_mem, warmup) ==
    \/ Len(warmup_mem) = warmup_mem_size + 1 /\ warmup
    \/ Len(rl_mem) = rl_mem_size + 1 /\ ~warmup

\* the test add_experience makes first: is the targeted buffer at its size
memory_is_full(warmup_mem, rl_mem, warmup) ==
    \/ Len(warmup_mem) = warmup_mem_size /\ warmup
    \/ Len(rl_mem) = rl_mem_size /\ ~warmup

\* a variant of add_experience that overwrites the oldest tuple of a full
\* buffer
add_experience_overwriting(warmup_mem, rl_mem, experience, warmup) ==
    IF warmup
    THEN [warmup_mem |-> IF Len(warmup_mem) = warmup_mem_size
                         THEN Append(Tail(warmup_mem), experience)
                         ELSE Append(warmup_mem, experience),
          rl_mem |-> rl_mem,
          ret |-> Len(warmup_mem) = warmup_mem_size]
    ELSE [warmup_mem |-> warmup_mem,
          rl_mem |-> IF Len(rl_mem) = rl_mem_size
                     THEN Append(Tail(rl_mem), experience)
                     ELSE Append(rl_mem, experience),
          ret |-> Len(rl_mem) = rl_mem_size]

\* a variant of add_experience that appends every accepted tuple to the
\* online buffer
add_experience_always_online(warmup_mem, rl_mem, experience, warmup) ==
    IF memory_is_full(warmup_mem, rl_mem, warmup) \/ Len(rl_mem) = rl_mem_size
    THEN [warmup_mem |-> warmup_mem, rl_mem |-> rl_mem, ret |-> TRUE]
    ELSE [warmup_mem |-> warmup_mem, rl_mem |-> Append(rl_mem, experience),
          ret |-> FALSE]

\* a variant of add_experience that turns a tuple down without saying so
add_experience_silent(warmup_mem, rl_mem, experience, warmup) ==
    IF memory_is_full(warmup_mem, rl_mem, warmup)
    THEN [warmup_mem |-> warmup_mem, rl_mem |-> rl_mem, ret |-> FALSE]
    ELSE IF warmup
    THEN [warmup_mem |-> Append(warmup_mem, experience), rl_mem |-> rl_mem,
          ret |-> FALSE]
    ELSE [warmup_mem |-> warmup_mem, rl_mem |-> Append(rl_mem, experience),
          ret |-> FALSE]

\* DialogueManager.add_experience: the buffers afterwards and the value
\* returned
add_experience(warmup_mem, rl_mem, experience, warmup) ==
    IF memory_is_full(warmup_mem, rl_mem, warmup)
    THEN [warmup_mem |-> warmup_mem, rl_mem |-> rl_mem, ret |-> TRUE]
    ELSE IF warmup
    THEN [warmup_mem |-> Append(warmup_mem, experience), rl_mem |-> rl_mem,
          ret |-> FALSE]
    ELSE [warmup_mem |-> warmup_mem, rl_mem |-> Append(rl_mem, experience),
          ret |-> FALSE]

\* int(len(self._rl_mem) * fraction), in float arithmetic, for every
\* fraction and length
DeletedPrefixes ==
    LET \* int(x) of a float below 2^31: its integer part
        FloatTrunc(x) ==
            IF x.scale <= 0 THEN BitsToInt(x.bits \o Zeros(0 - x.scale))
            ELSE LET b == Zeros(x.scale - Len(x.bits)) \o x.bits
                 IN  BitsToInt(SubSeq(b, 1, Len(b) - x.scale))
        \* the fractions empty_rl_mem is called with, as num / den: 0.1
        \* (train.py), a half, and the default 1
        Fractions == {<<1, 10>>, <<1, 2>>, <<1, 1>>}
    IN  [f \in Fractions |->
            [len \in 0..rl_mem_size |->
                FloatTrunc(FloatTimesInt(FloatDiv(f[1], f[2]), len))]]

\* DialogueManager.empty_rl_mem: del self._rl_mem[:int(len(self._rl_mem) * fraction)]
empty_rl_mem(rl_mem, num, den) ==
    LET n == DeletedPrefixes[<<num, den>>][Len(rl_mem)]
    IN  SubSeq(rl_mem, n + 1, Len(rl_mem))

EpRet(episode_reward, success, is_memory_full) ==
    [episode_reward |-> episode_reward, success |-> success,
     is_memory_full |-> is_memory_full]

\* a call of add_experience between two episodes
DMAddExperience ==
    LET Experiences ==
            UNION {{Experience(s, a, r, n, d) : r \in EpRewards(d)} :
                      s \in EpStates, a \in EpActIdx, n \in EpStates, d \in BOOLEAN}
    IN  /\ ep_pc = "idle"
        /\ \E experience \in Experiences, warmup \in BOOLEAN :
              LET r == add_experience(dm_warmup_mem, dm_rl_mem, experience, warmup)
              IN  /\ dm_warmup_mem' = r.warmup_mem
                  /\ dm_rl_mem' = r.rl_mem
                  /\ dm_call' = DmCall("add_experience", warmup, experience, 0, 1, r.ret)
        /\ ep_ret' = EpRet(0, FALSE, FALSE)
        /\ UNCHANGED <<ep_pc, ep_warmup, ep_state, ep_agt_act_idx, ep_round,
                       ep_episode_reward, ep_rejected>>

\* a call of empty_rl_mem between two episodes
DMEmptyRlMem ==
    /\ ep_pc = "idle"
    /\ \E f \in DOMAIN DeletedPrefixes :
          /\ dm_rl_mem' = empty_rl_mem(dm_rl_mem, f[1], f[2])
          /\ dm_call' = DmCall("empty_rl_mem", FALSE, <<>>, f[1], f[2], FALSE)
    /\ ep_ret' = EpRet(0, FALSE, FALSE)
    /\ UNCHANGED <<dm_warmup_mem, ep_pc, ep_warmup, ep_state, ep_agt_act_idx,
                   ep_round, ep_episode_reward, ep_rejected>>

\* run_episode up to its while loop: the resets, the user's initial action
\* and the first DM.step, which returns state and agt_act_idx
EpisodeStart ==
    /\ ep_pc = "idle"
    /\ \E warmup \in BOOLEAN, state \in EpStates, agt_act_idx \in EpActIdx :
          /\ ep_warmup' = warmup
          /\ ep_state' = state
          /\ ep_agt_act_idx' = agt_act_idx
    /\ ep_pc' = "loop"
    /\ ep_round' = 0
    /\ ep_episode_reward' = 0
    /\ ep_ret' = EpRet(0, FALSE, FALSE)
    /\ ep_rejected' = FALSE
    /\ dm_call' = DmCall("none", FALSE, <<>>, 0, 1, FALSE)
    /\ UNCHANGED <<dm_rl_mem, dm_warmup_mem>>

\* one iteration of the while loop of run_episode: US.step, which returns
\* done at the latest in round patience, DM.step, add_experience, and the
\* return when done
EpisodeTurn ==
    LET \* the locals of run_episode outside of an episode
        EpIdle ==
            /\ ep_pc' = "idle"
            /\ ep_warmup' = FALSE
            /\ ep_state' = 0
            /\ ep_agt_act_idx' = 0
            /\ ep_round' = 0
            /\ ep_episode_reward' = 0
            /\ ep_rejected' = FALSE
    IN  /\ ep_pc = "loop"
        /\ \E done \in (IF ep_round + 1 = patience THEN {TRUE} ELSE BOOLEAN),
              next_state \in EpStates, next_agt_act_idx \in EpActIdx :
           \E success \in (IF done THEN BOOLEAN ELSE {FALSE}) :
           \E reward \in EpRewards(done) :
              LET experience == Experience(ep_state, ep_agt_act_idx, reward, next_state, done)
                  r == add_experience(dm_warmup_mem, dm_rl_mem, experience, ep_warmup)
              IN  /\ dm_warmup_mem' = r.warmup_mem
                  /\ dm_rl_mem' = r.rl_mem
                  /\ dm_call' = DmCall("add_experience", ep_warmup, experience, 0, 1, r.ret)
                  /\ IF done
                     THEN /\ EpIdle
                          /\ ep_ret' = EpRet(ep_episode_reward + reward, success, r.ret)
                     ELSE /\ ep_state' = next_state
                          /\ ep_agt_act_idx' = next_agt_act_idx
                          /\ ep_round' = ep_round + 1
                          /\ ep_episode_reward' = ep_episode_reward + reward
                          /\ ep_rejected' = (ep_rejected \/ r.ret)
                          /\ UNCHANGED <<ep_pc, ep_warmup, ep_ret>>

(***************************************************************************)
(* The tracker driven by any interleaving of user acts, agent acts and     *)
(* resets.  User acts carry at most MaxActInf informs and one request;   *)
(* their keys are keys of USR_INF_KEYS and USR_REQ_KEYS and      *)
(* their values are the ones a user can type or the simulator can send.    *)
(***************************************************************************)
MaxActInf == 1

STUserAct ==
    LET \* the inform values of the user acts of the model, per key: a word
        \* of an author list, another one, a content type no document has,
        \* a citation bound and a year one document satisfies, the wildcard,
        \* and a digit string for a free-text key
        UsrInfValues ==
            ("authors" :> {S(<<"a","l">>), S(<<"B","o">>)}) @@
            ("content_type" :> {S(<<"B","o","o","k","s">>)}) @@
            ("min_num_citations" :> {S(<<"5">>)}) @@
            ("publication_year" :> {S(<<"2","0","1","8">>)}) @@
            ("open_access" :> {OWT}) @@
            ("keywords" :> {S(<<"2","0","2","0">>)})
        \* the dicts with at most MaxActInf keys, each key with one of its
        \* values
        keysets == {ks \in SUBSET DOMAIN UsrInfValues : Cardinality(ks) <= MaxActInf}
        all == UNION {[ks -> UNION {UsrInfValues[x] : x \in ks}] : ks \in keysets}
        informs == {d \in all : \A x \in DOMAIN d : d[x] \in UsrInfValues[x]}
        TrackerUserActs ==
            {UsrSpec(THX), UsrSpec(RJCT)}
            \cup {UsrDict(inf, req) : inf \in informs, req \in {<<>>, <<GOAL_KEY>>}}
    IN  /\ st_ncalls < MaxCalls
        /\ \E user_action \in TrackerUserActs : process_user_action(user_action)
        /\ st_ncalls' = st_ncalls + 1

STAgentAct ==
    LET \* the acts the policies of the model choose: every INFORM of
        \* AGT_ACTS and two of its REQUESTs (a REQUEST only sets the last
        \* agent act)
        TrackerAgentActs ==
            {Act2(INF, AGT_INF_KEYS[i]) : i \in 1..Len(AGT_INF_KEYS)}
            \cup {Act2(REQ, "keywords"), Act2(REQ, "publication_year")}
    IN  /\ st_ncalls < MaxCalls
        /\ \E agent_action \in TrackerAgentActs : process_agent_action(agent_action)
        /\ st_ncalls' = st_ncalls + 1

STReset ==
    /\ StReset
    /\ st_ncalls' = 0

(***************************************************************************)
(* RBAgent.py                                                              *)
(***************************************************************************)
VARIABLES
    rb,         \* the RBAgent: its _curr_agt_inf, _curr_usr_inf, _curr_OWT_inf,
                \* _curr_usr_req and _pending_usr_req
    rb_call,    \* the last call of get_action or record_processed_action and
                \* what it returned
    rb_ncalls,  \* the number of calls since the last reset
    step_pc,    \* where DialogueManager.step stands: "idle" between two steps,
                \* "agent" once the policy has chosen its action
    step_call   \* the last DialogueManager.step: its user act, what it returns,
                \* whether it raised

rbVars == <<rb, rb_call, rb_ncalls, step_pc, step_call>>

\* at most MaxRbCalls calls are made on the RBAgent between two resets
MaxRbCalls == 5

\* RBAgent.reset: the memory of a new or reset agent
rb_reset ==
    [curr_agt_inf |-> EmptyDict, curr_usr_inf |-> EmptyDict, curr_OWT_inf |-> {},
     curr_usr_req |-> {}, pending_usr_req |-> {}]

\* a record_processed_action whose reset leaves the pending requests alone
record_processed_action_keeps_pending(mem, action) ==
    IF action = AgtSpec(WCP)
    THEN [mem EXCEPT !.curr_agt_inf = EmptyDict]
    ELSE IF action.kind = "act3" /\ action.intent = INF
    THEN [mem EXCEPT !.curr_agt_inf = Update(@, action.key :> action.value)]
    ELSE mem

\* RBAgent.record_processed_action on what process_agent_action returned
record_processed_action(mem, action) ==
    IF action = AgtSpec(WCP)
    THEN \* _reset_agent_informs
         [mem EXCEPT !.curr_agt_inf = EmptyDict, !.pending_usr_req = mem.curr_usr_req]
    ELSE IF action.kind = "act3" /\ action.intent = INF
    THEN [mem EXCEPT !.curr_agt_inf = Update(@, action.key :> action.value)]
    ELSE mem

\* a get_action whose first rule informs the first key of AGT_INF_KEYS
get_action_informs_first_key(mem, user_action) ==
    {[before |-> mem, mem |-> mem, rule |-> "1", action |-> Act2(INF, AGT_INF_KEYS[1]),
      index |-> 0, raised |-> FALSE]}

\* a get_action that returns the position in AGT_ACTS counted from 1
get_action_index_from_one(mem, user_action) ==
    {[before |-> mem, mem |-> mem, rule |-> "3.5", action |-> Act2(REQ, AGT_REQ_KEYS[1]),
      index |-> IndexOf(AGT_ACTS, Act2(REQ, AGT_REQ_KEYS[1])), raised |-> FALSE]}

\* RBAgent.get_action: the outcomes the random choices allow, each with the
\* memory it found and the one it leaves, the rule that chose the action,
\* and the returned (index, action); index counts from 0
get_action(mem, user_action) ==
    LET inf == user_action.inf
        reqs == Range(user_action.req)
        \* _reset_agent_informs
        Reset(m) == [m EXCEPT !.curr_agt_inf = EmptyDict,
                              !.pending_usr_req = m.curr_usr_req]
        \* the update of the memory by a structured user act
        Updated(m) ==
            [m EXCEPT !.curr_usr_inf = Update(@, inf),
                      !.curr_usr_req = (@ \cup reqs) \ DOMAIN inf,
                      !.pending_usr_req = (@ \cup reqs) \ DOMAIN inf,
                      !.curr_OWT_inf = (@ \cup {x \in DOMAIN inf : inf[x] = OWT})
                                          \ {x \in DOMAIN inf : inf[x] # OWT}]
        Processed(conflict_keys) ==
            IF user_action = UsrSpec(RJCT) THEN Reset(mem)
            ELSE IF user_action.kind # "dict" THEN mem
            ELSE IF conflict_keys # {} THEN Updated(Reset(mem))
            ELSE Updated(mem)
        Choice(rule, intent, keys) ==
            {[rule |-> rule, action |-> Act2(intent, x)] : x \in keys}
        \* rules 3.1 to 3.5
        Random(already_inf, inf_OWT_keys) ==
            LET irrelevant_keys ==
                    already_inf \cup
                    UNION {{CONSTRAINED_KEYS_MAPS[x][i][1] :
                               i \in 1..Len(CONSTRAINED_KEYS_MAPS[x])} :
                           x \in already_inf \cap DOMAIN CONSTRAINED_KEYS_MAPS}
                req_keys == Range(AGT_REQ_KEYS) \ irrelevant_keys
                inf_keys == Range(AGT_INF_KEYS) \ irrelevant_keys
            IN  Choice("3.1", INF, inf_keys \cap {GOAL_KEY})
                \cup Choice("3.2", REQ, req_keys)
                \cup IF inf_keys # {} THEN Choice("3.3", INF, inf_keys)
                     ELSE Choice("3.4", INF, inf_OWT_keys)
                          \cup Choice("3.5", REQ, Range(AGT_REQ_KEYS))
        Choices(m) ==
            IF user_action.kind = "dict" /\ user_action.req # <<>>
            THEN Choice("1", INF, reqs)
            ELSE IF m.pending_usr_req # {}
            THEN Choice("2", INF, m.pending_usr_req)
            ELSE Random(DOMAIN m.curr_agt_inf \cup DOMAIN m.curr_usr_inf,
                        m.curr_OWT_inf \cap Range(AGT_INF_KEYS))
        \* the discard of an informed key, then AGT_ACTS.index
        Outcome(m, c, index) ==
            [before |-> mem,
             mem |-> IF c.action.intent = INF
                     THEN [m EXCEPT !.pending_usr_req = @ \ {c.action.key}] ELSE m,
             rule |-> c.rule, action |-> c.action, index |-> index - 1,
             raised |-> index = 0]
        Chosen(m) == {Outcome(m, c, IndexOf(AGT_ACTS, c.action)) : c \in Choices(m)}
        Call(conflict_keys) ==
            IF Raises(conflict_keys)
            THEN {[before |-> mem, mem |-> mem, rule |-> "", action |-> None,
                   index |-> -1, raised |-> TRUE]}
            ELSE Chosen(Processed(conflict_keys))
    IN  Call(IF user_action.kind = "dict"
             THEN get_conflict_keys(inf, mem.curr_agt_inf) ELSE {})

\* a call of get_action
RBGetAction ==
    LET \* the user acts given to the RBAgent: the special acts, informs of all the
        \* keys a user and the agent can both inform (two of them as the wildcard),
        \* requests alone, a request of an informed key, a conflicting inform,
        \* a wildcard taken back, and a digit string for a free-text key
        RbUserActs ==
            {UsrSpec(THX), UsrSpec(RJCT),
             UsrDict(("authors" :> S(<<"a","l">>)) @@ ("document_title" :> S(<<"a","i">>)) @@
                     ("publication_title" :> S(<<"j","o">>)) @@ ("publisher" :> S(<<"i","e">>)) @@
                     ("publication_year" :> S(<<"2","0","2","0">>)) @@
                     ("open_access" :> OWT) @@ ("content_type" :> OWT), <<>>),
             UsrDict(EmptyDict, <<"doi", "abstract">>),
             UsrDict("authors" :> S(<<"z","z">>), <<"authors">>),
             UsrDict("open_access" :> S(<<"y","e","s">>), <<>>),
             UsrDict("keywords" :> S(<<"2","0","2","0">>), <<>>)}
    IN  /\ rb_ncalls < MaxRbCalls
        /\ \E user_action \in RbUserActs :
              \E r \in get_action(rb, user_action) :
                 /\ rb' = r.mem
                 /\ rb_call' = [op |-> "get_action", usr |-> user_action, agt |-> None] @@ r
        /\ rb_ncalls' = rb_ncalls + 1
        /\ UNCHANGED <<step_pc, step_call>>

\* a call of record_processed_action
RBRecordProcessedAction ==
    LET \* what process_agent_action returns to record_processed_action
        RbProcessedActs ==
            {Act3(INF, x, str(KB[1][x])) : x \in {"doi", "abstract", "num_citations", "authors"}}
            \cup {AgtSpec(WCP), AgtSpec(NMA), Act2(REQ, "keywords")}
    IN  /\ rb_ncalls < MaxRbCalls
        /\ \E action \in RbProcessedActs :
              /\ rb' = record_processed_action(rb, action)
              /\ rb_call' = [op |-> "record_processed_action", usr |-> NoUsrAct,
                              agt |-> action, before |-> rb, mem |-> rb', rule |-> "",
                              action |-> None, index |-> -1, raised |-> FALSE]
        /\ rb_ncalls' = rb_ncalls + 1
        /\ UNCHANGED <<step_pc, step_call>>

\* a call of reset
RBReset ==
    /\ rb' = rb_reset
    /\ rb_call' = [op |-> "reset", usr |-> NoUsrAct, agt |-> None, before |-> rb_reset,
                    mem |-> rb_reset, rule |-> "", action |-> None, index |-> -1,
                    raised |-> FALSE]
    /\ rb_ncalls' = 0
    /\ UNCHANGED <<step_pc, step_call>>

(***************************************************************************)
(* DialogueManager.step in warm-up mode, as app.py calls it on every user  *)
(* message: an exception of a step ends the callback and the next message  *)
(* starts a new step                                                       *)
(***************************************************************************)
\* DialogueManager.step up to the choice of the action: process_user_action,
\* get_state, RBAgent.get_action. A step is started while fewer than MaxCalls
\* calls were made on the tracker.
DMStepUser ==
    LET \* the user acts of the steps: the special acts, informs that match both
        \* documents, one, or none, a request, and a digit string for a free-text key
        \* followed by a word for the same key
        StepUserActs ==
            {UsrSpec(THX), UsrSpec(RJCT),
             UsrDict("authors" :> S(<<"a","l">>), <<>>),
             UsrDict("authors" :> S(<<"b","o">>), <<>>),
             UsrDict("content_type" :> S(<<"b","o","o","k","s">>), <<>>),
             UsrDict(EmptyDict, <<GOAL_KEY>>),
             UsrDict(("keywords" :> S(<<"2","0","2","0">>)) @@ ("authors" :> S(<<"a","l">>)), <<>>),
             UsrDict("keywords" :> S(<<"m","l">>), <<>>)}
    IN  /\ step_pc = "idle"
        /\ st_ncalls < MaxCalls
        /\ \E user_action \in StepUserActs :
              /\ process_user_action(user_action)
              /\ IF \/ st_call'.raised
                    \/ get_state_raises(st_curr_agt_inf', st_curr_usr_inf',
                                        st_curr_constraints', st_curr_usr_req',
                                        st_last_agt_act', st_last_usr_act')
                 THEN /\ step_call' = [op |-> "step", usr |-> user_action, index |-> -1,
                                       action |-> None, raised |-> TRUE, returned |-> FALSE]
                      /\ step_pc' = "idle"
                      /\ UNCHANGED <<rb, rb_call>>
                 ELSE \E r \in get_action(rb, user_action) :
                         /\ rb' = r.mem
                         /\ rb_call' = [op |-> "get_action", usr |-> user_action,
                                        agt |-> None] @@ r
                         /\ step_call' = [op |-> "step", usr |-> user_action,
                                          index |-> r.index, action |-> r.action,
                                          raised |-> r.raised, returned |-> FALSE]
                         /\ step_pc' = IF r.raised THEN "idle" ELSE "agent"
        /\ st_ncalls' = st_ncalls + 1
        /\ UNCHANGED rb_ncalls

\* the rest of DialogueManager.step: process_agent_action, then
\* record_processed_action on what it returned
DMStepAgent ==
    /\ step_pc = "agent"
    /\ process_agent_action(step_call.action)
    /\ st_ncalls' = st_ncalls + 1
    /\ step_pc' = "idle"
    /\ IF st_call'.raised
       THEN /\ step_call' = [step_call EXCEPT !.raised = TRUE]
            /\ UNCHANGED rb
       ELSE /\ step_call' = [step_call EXCEPT !.action = st_call'.ret, !.returned = TRUE]
            /\ rb' = record_processed_action(rb, st_call'.ret)
    /\ UNCHANGED <<rb_call, rb_ncalls>>

\* DialogueManager.reset
DMReset ==
    /\ step_pc = "idle"
    /\ StReset
    /\ st_ncalls' = 0
    /\ rb' = rb_reset
    /\ step_call' = [op |-> "reset", usr |-> NoUsrAct, index |-> -1, action |-> None,
                     raised |-> FALSE, returned |-> FALSE]
    /\ rb_call' = [op |-> "reset", usr |-> NoUsrAct, agt |-> None, before |-> rb_reset,
                    mem |-> rb_reset, rule |-> "", action |-> None, index |-> -1,
                    raised |-> FALSE]
    /\ UNCHANGED <<rb_ncalls, step_pc>>

(***************************************************************************)
(* ErrorModelController.py                                                 *)
(***************************************************************************)
VARIABLE em_call   \* the last call of infuse_error: its act, the error
                   \* probability of the controller, and what it returned

\* a _corrupt_inf_key that takes the substitute among all the inform keys
corrupt_inf_key_of_any_type(key, user_action) ==
    {UsrDict(Pop(user_action.inf, key) @@ (sub_key :> user_action.inf[key]),
             user_action.req) :
        sub_key \in Range(USR_INF_KEYS) \ DOMAIN user_action.inf}

\* _corrupt_inf_key: the acts random.choice allows; none when no substitute
\* key is left, where random.choice raises IndexError
corrupt_inf_key(key, user_action) ==
    {UsrDict(Pop(user_action.inf, key) @@ (sub_key :> user_action.inf[key]),
             user_action.req) :
        sub_key \in Range(IF key \in Range(USR_INF_STR_KEYS)
                          THEN USR_INF_STR_KEYS ELSE USR_INF_NUM_KEYS)
                       \ DOMAIN user_action.inf}

\* an infuse_error that never corrupts
infuse_error_never(user_action, error_probability) ==
    {[act |-> user_action, error_infused |-> FALSE, raised |-> FALSE]}

\* infuse_error on a controller of the given error probability (in
\* hundredths): the outcomes the random choices allow. random.random() is
\* in [0, 1), taken here at 0, 0.01, 0.02, 0.5 and 0.99.
infuse_error(user_action, error_probability) ==
    LET inf == user_action.inf
        req == user_action.req
        \* list.remove(key): without the first occurrence of key
        Removed(key) ==
            SubSeq(req, 1, IndexOf(req, key) - 1) \o SubSeq(req, IndexOf(req, key) + 1, Len(req))
        Returned(acts) == {[act |-> a, error_infused |-> TRUE, raised |-> FALSE] : a \in acts}
        \* random.choice of an empty list raises IndexError
        ReturnedOrRaised(acts) ==
            IF acts = {}
            THEN {[act |-> user_action, error_infused |-> FALSE, raised |-> TRUE]}
            ELSE Returned(acts)
        OnSpecAct ==
            Returned({UsrDict(EmptyDict, <<x>>) : x \in Range(USR_REQ_KEYS)}       \* _switch_spec_act_to_req
                     \cup {UsrDict(x :> IF user_action.spec = THX
                                        THEN S(<<"T","H","A","N","K","S">>)
                                        ELSE S(<<"R","E","J","E","C","T">>), <<>>) :
                              x \in Range(USR_INF_STR_KEYS)}                       \* _switch_spec_act_to_inf
                     \cup {UsrSpec(sa) : sa \in Range(USR_SPEC_ACTS) \ {user_action.spec}})  \* _corrupt_spec_act
        OnInformKey(key) ==
            Returned({UsrDict(Pop(inf, key), req)})                               \* _pop_inform_key
            \cup (IF key \in DOMAIN USR_INF_ENUM_KEYS
                  THEN ReturnedOrRaised({UsrDict([inf EXCEPT ![key] = v], req) :   \* _corrupt_inf_enum_value
                                            v \in Range(USR_INF_ENUM_KEYS[key]) \ {inf[key]}})
                  ELSE ReturnedOrRaised(corrupt_inf_key(key, user_action)))
            \cup (IF key \in Range(USR_REQ_KEYS)
                  THEN Returned({UsrDict(Pop(inf, key), Append(req, key))})        \* _switch_inf_key_to_req_key
                  ELSE {})
        OnRequestKey(key) ==
            ReturnedOrRaised({UsrDict(inf, Append(Removed(key), sub_key)) :        \* _corrupt_req_key
                                 sub_key \in Range(USR_REQ_KEYS) \ Range(req)})
            \cup Returned({UsrDict(inf, Removed(key))})                            \* _pop_request_key
        \* random.choice(user_action[REQ] + list(user_action[INF])), then the
        \* error function chosen for the key
        Corrupted ==
            IF user_action.kind = "spec" THEN OnSpecAct
            ELSE IF Range(req) \cup DOMAIN inf = {} THEN ReturnedOrRaised({})
            ELSE UNION {IF key \in DOMAIN inf THEN OnInformKey(key)
                        ELSE OnRequestKey(key) : key \in Range(req) \cup DOMAIN inf}
    IN  UNION {IF random < error_probability THEN Corrupted
               ELSE {[act |-> user_action, error_infused |-> FALSE, raised |-> FALSE]} :
               random \in {0, 1, 2, 50, 99}}

\* a call of infuse_error on a controller whose error probability is 0,
\* 0.02 (warmup.py, train.py) or 1
InfuseError ==
    LET \* the acts UserSimulator.step returns while the episode goes on: a special
        \* act, one inform, one request, the informs of the bounds of a requested
        \* field, or a wildcard with one more inform
        EmUserActs ==
            {UsrSpec(THX), UsrSpec(RJCT),
             UsrDict("authors" :> S(<<"a","l">>), <<>>),
             UsrDict("keywords" :> S(<<"a","i">>), <<>>),
             UsrDict("content_type" :> S(<<"B","o","o","k","s">>), <<>>),
             UsrDict("open_access" :> OWT, <<>>),
             UsrDict("publication_year" :> S(<<"2","0","1","8">>), <<>>),
             UsrDict(("min_publication_year" :> S(<<"2","0","1","5">>)) @@
                     ("max_publication_year" :> S(<<"2","0","1","9">>)), <<>>),
             UsrDict(("publisher" :> OWT) @@ ("min_num_citations" :> S(<<"5">>)), <<>>),
             UsrDict(EmptyDict, <<"doi">>),
             UsrDict(EmptyDict, <<"abstract">>)}
    IN  \E user_action \in EmUserActs, error_probability \in {0, 2, 100} :
           \E r \in infuse_error(user_action, error_probability) :
              em_call' = [op |-> "infuse_error", usr |-> user_action,
                          error_probability |-> error_probability] @@ r

(***************************************************************************)
(* RLAgent.py and DialogueManager.save / load.  The behaviour network is   *)
(* the table of its outputs: one value per state and action.  An artifact  *)
(* on disk is <<>> when the file is missing or unreadable and <<x>> when   *)
(* it holds x.                                                             *)
(***************************************************************************)
VARIABLES
    rl_beh_model,   \* RLAgent._beh_model
    disk_memory,    \* the artifact <filepath>/memory
    disk_rl_agt,    \* the artifact <filepath>/rl_agt
    ps_call         \* the last call made on the dialogue manager and whether it raised

psVars == <<rl_beh_model, disk_memory, disk_rl_agt, ps_call>>

\* the states and the action indices of the experiences given to the agent
QStates == {0, 1}
QActs == {0, 1}

\* the network whose outputs are all v
ConstNet(v) == [s \in QStates |-> [a \in QActs |-> v]]

\* DialogueManager.save: joblib.dump of both buffers, then RLAgent.save
DMSave ==
    /\ disk_memory' = <<[warmup |-> dm_warmup_mem, rl |-> dm_rl_mem]>>
    /\ disk_rl_agt' = <<rl_beh_model>>
    /\ ps_call' = [op |-> "save", raised |-> FALSE]
    /\ UNCHANGED <<dmVars, rl_beh_model>>

\* DialogueManager.load: joblib.load, the two assignments of the buffers,
\* then RLAgent.load; joblib.load and load_model raise on a missing or
\* unreadable artifact
DMLoad ==
    /\ IF disk_memory = <<>>
       THEN /\ ps_call' = [op |-> "load", raised |-> TRUE]
            /\ UNCHANGED <<dm_warmup_mem, dm_rl_mem, rl_beh_model>>
       ELSE /\ dm_warmup_mem' = disk_memory[1].warmup
            /\ dm_rl_mem' = disk_memory[1].rl
            /\ IF disk_rl_agt = <<>>
               THEN /\ ps_call' = [op |-> "load", raised |-> TRUE]
                    /\ UNCHANGED rl_beh_model
               ELSE /\ ps_call' = [op |-> "load", raised |-> FALSE]
                    /\ rl_beh_model' = disk_rl_agt[1]
    /\ UNCHANGED <<dm_call, ep_pc, ep_warmup, ep_state, ep_agt_act_idx, ep_round,
                   ep_episode_reward, ep_ret, ep_rejected, disk_memory, disk_rl_agt>>

\* an artifact is removed or damaged between a save and a load
ArtifactLost ==
    /\ \/ disk_memory # <<>> /\ disk_memory' = <<>> /\ UNCHANGED disk_rl_agt
       \/ disk_rl_agt # <<>> /\ disk_rl_agt' = <<>> /\ UNCHANGED disk_memory
    /\ ps_call' = [op |-> "lost", raised |-> FALSE]
    /\ UNCHANGED <<dmVars, rl_beh_model>>

\* a call of add_experience between a save and a load
PSAddExperience ==
    /\ ep_pc = "idle"
    /\ \E experience \in {Experience(0, 0, 0 - 1, 1, FALSE), Experience(1, 1, 0, 0, TRUE)},
          warmup \in BOOLEAN :
          \E r \in {add_experience(dm_warmup_mem, dm_rl_mem, experience, warmup)} :
             /\ dm_warmup_mem' = r.warmup_mem
             /\ dm_rl_mem' = r.rl_mem
             /\ ps_call' = [op |-> "add_experience", raised |-> FALSE]
    /\ UNCHANGED <<dm_call, ep_pc, ep_warmup, ep_state, ep_agt_act_idx, ep_round,
                   ep_episode_reward, ep_ret, ep_rejected, rl_beh_model,
                   disk_memory, disk_rl_agt>>

\* DialogueManager.train seen from outside: the fit leaves the behaviour
\* network changed
PSTrain ==
    /\ \E net \in {ConstNet(0), ConstNet(1)} \ {rl_beh_model} : rl_beh_model' = net
    /\ ps_call' = [op |-> "train", raised |-> FALSE]
    /\ UNCHANGED <<dmVars, disk_memory, disk_rl_agt>>

(***************************************************************************)
(* RLAgent.train on any experience set, batch by batch.  Values are kept   *)
(* exact: a regression target is recorded in units of 1 / gamma[2].        *)
(***************************************************************************)
VARIABLES
    rl_epsilon_decays,  \* the number of times train has multiplied epsilon by epsilon_decay
    tr_pc,              \* train: "idle" outside of it, "loop" in its loop over the batches
    tr_tar_model,       \* train's local tar_model
    tr_batches,         \* the batches the loop has not reached yet
    tr_call             \* the last batch: its experiences, the network outputs used and
                        \* the array q given to fit

trVars == <<rl_epsilon_decays, tr_pc, tr_tar_model, tr_batches, tr_call>>

\* train is called at most MaxTrains times
MaxTrains == 2
\* the experience sets given to train hold at most MaxTrainSet tuples
MaxTrainSet == 2

\* RLAgent.batch_size
batch_size == 1
\* RLAgent.gamma, 0.9, as numerator and denominator
gamma == <<9, 10>>
\* RLAgent.vanilla: train.py, warmup.py and app.py leave it at its default
vanilla == TRUE

\* np.argmax(row): the first index of the greatest output
argmax(row) ==
    CHOOSE a \in QActs : /\ \A b \in QActs : row[b] <= row[a]
                         /\ \A b \in QActs : b < a => row[b] < row[a]

\* the array q given to fit for a batch, one row per experience: the
\* behaviour outputs at s with q[i][a] = r + gamma * v_prime
regression_targets(batch, beh_model, tar_model) ==
    [i \in 1..Len(batch) |->
        LET s == batch[i][1]
            a == batch[i][2]
            r == batch[i][3]
            s_prime == batch[i][4]
            d == batch[i][5]
            tar_q_prime == tar_model[s_prime]
            beh_q_prime == beh_model[s_prime]
            \* np.amax(tar_q_prime[i])
            amax == CHOOSE x \in {tar_q_prime[b] : b \in QActs} :
                       \A b \in QActs : tar_q_prime[b] <= x
            v_prime == IF vanilla THEN amax ELSE tar_q_prime[argmax(beh_q_prime)]
            \* v_prime *= not d
            v == v_prime * (IF d THEN 0 ELSE 1)
        IN  [b \in QActs |-> IF b = a THEN r * gamma[2] + gamma[1] * v
                             ELSE beh_model[s][b] * gamma[2]]]

\* train up to its loop: the clone of the behaviour network, the shuffle
\* (the experience set is taken in any order) and the batches
TrainStart ==
    LET \* the tuples of the experience sets: a turn that goes on, a last
        \* turn, another turn from the same state
        tuples == {Experience(0, 0, 0 - 1, 1, FALSE), Experience(1, 1, 0, 0, TRUE),
                   Experience(0, 1, 0 - 1, 1, FALSE)}
        sets == UNION {[1..n -> tuples] : n \in 1..MaxTrainSet}
        \* [experience_set[i : i + batch_size]
        \*  for i in range(0, len(experience_set), batch_size)]
        RECURSIVE batches_of(_)
        batches_of(set) ==
            IF set = <<>> THEN <<>>
            ELSE IF Len(set) <= batch_size THEN <<set>>
            ELSE <<SubSeq(set, 1, batch_size)>>
                 \o batches_of(SubSeq(set, batch_size + 1, Len(set)))
    IN  /\ tr_pc = "idle"
        /\ rl_epsilon_decays < MaxTrains
        /\ \E experience_set \in sets : tr_batches' = batches_of(experience_set)
        /\ tr_tar_model' = rl_beh_model
        /\ tr_pc' = "loop"
        /\ tr_call' = [op |-> "start", batch |-> <<>>, beh |-> rl_beh_model,
                       tar |-> rl_beh_model, q |-> <<>>]
        /\ UNCHANGED <<rl_beh_model, rl_epsilon_decays>>

\* one iteration of the loop over the batches: the predictions, the loop
\* that fills q, and fit, which leaves the behaviour network with any
\* outputs (0 or 1 in the model)
TrainBatch ==
    /\ tr_pc = "loop"
    /\ tr_batches # <<>>
    /\ tr_call' = [op |-> "batch", batch |-> Head(tr_batches), beh |-> rl_beh_model,
                   tar |-> tr_tar_model,
                   q |-> regression_targets(Head(tr_batches), rl_beh_model, tr_tar_model)]
    /\ \E net \in [QStates -> [QActs -> {0, 1}]] : rl_beh_model' = net
    /\ tr_batches' = Tail(tr_batches)
    /\ UNCHANGED <<rl_epsilon_decays, tr_pc, tr_tar_model>>

\* the end of train: epsilon *= epsilon_decay
TrainEnd ==
    /\ tr_pc = "loop"
    /\ tr_batches = <<>>
    /\ rl_epsilon_decays' = rl_epsilon_decays + 1
    /\ tr_pc' = "idle"
    /\ tr_call' = [op |-> "end", batch |-> <<>>, beh |-> rl_beh_model,
                   tar |-> tr_tar_model, q |-> <<>>]
    /\ UNCHANGED <<rl_beh_model, tr_tar_model, tr_batches>>

(***************************************************************************)
(* run.py: run_period, which runs episodes on the dialogue manager as it   *)
(* stands (warmup.py on a new one, train.py period after period)           *)
(***************************************************************************)
VARIABLES
    rp_pc,              \* run_period: "idle" before it, "loop" in its while loop,
                        \* "done" once it returned
    rp_warmup,          \* run_period's argument warmup
    rp_max_episodes,    \* run_period's argument max_episodes (0 stands for None)
    rp_n_episode,       \* run_period's local n_episode
    rp_is_memory_full   \* run_period's local is_memory_full

rpVars == <<rp_pc, rp_warmup, rp_max_episodes, rp_n_episode, rp_is_memory_full>>

\* the largest max_episodes a training period is given
MaxEpisodes == 2

\* a call of run_period up to its while loop: a warm-up period without
\* max_episodes, or a training period with it
RunPeriodStart ==
    /\ rp_pc \in {"idle", "done"}
    /\ \E warmup \in BOOLEAN :
          /\ rp_warmup' = warmup
          /\ rp_max_episodes' \in (IF warmup THEN {0} ELSE 1..MaxEpisodes)
    /\ rp_n_episode' = 0
    /\ rp_is_memory_full' = FALSE
    /\ rp_pc' = "loop"
    /\ UNCHANGED dmVars

\* the start of an iteration of the while loop: n_episode += 1 and
\* run_episode up to its own loop
RunPeriodEpisode ==
    /\ rp_pc = "loop"
    /\ (~rp_is_memory_full /\ (rp_warmup \/ rp_n_episode < rp_max_episodes))
    /\ EpisodeStart
    /\ ep_warmup' = rp_warmup
    /\ rp_n_episode' = rp_n_episode + 1
    /\ UNCHANGED <<rp_pc, rp_warmup, rp_max_episodes, rp_is_memory_full>>

\* a turn of the running episode; when it is the last one, run_episode
\* returns and is_memory_full is assigned
RunPeriodTurn ==
    /\ rp_pc = "loop"
    /\ EpisodeTurn
    /\ rp_is_memory_full' = IF ep_pc' = "idle" THEN ep_ret'.is_memory_full
                             ELSE rp_is_memory_full
    /\ UNCHANGED <<rp_pc, rp_warmup, rp_max_episodes, rp_n_episode>>

\* the while loop is left and run_period returns
RunPeriodEnd ==
    /\ rp_pc = "loop"
    /\ ep_pc = "idle"
    /\ ~(~rp_is_memory_full /\ (rp_warmup \/ rp_n_episode < rp_max_episodes))
    /\ rp_pc' = "done"
    /\ UNCHANGED <<dmVars, rp_warmup, rp_max_episodes, rp_n_episode, rp_is_memory_full>>

(***************************************************************************)
(* Specifications                                                          *)
(***************************************************************************)
kbVars == <<kb_cache, kb_call, kb_ncalls>>
vars == <<stVars, usVars, dmVars, kbVars, mt_call, rbVars, em_call, psVars, trVars,
          rpVars>>

\* the tracker after construction
StInit ==
    /\ st_curr_agt_inf = EmptyDict
    /\ st_curr_usr_inf = EmptyDict
    /\ st_curr_constraints = EmptyDict
    /\ st_curr_usr_req = {}
    /\ st_last_agt_act = None
    /\ st_last_usr_act = NoUsrAct
    /\ st_call = [op |-> "init", usr |-> NoUsrAct, agt |-> None, ret |-> None,
                  raised |-> FALSE, before |-> EmptyDict]
    /\ st_ncalls = 0
    \* the tracker's KBManager, its cache empty
    /\ kb_cache = [documents |-> EmptyDict, values |-> EmptyDict, count |-> EmptyDict,
                   writes |-> EmptyDict]
    /\ kb_call = [op |-> "init", items |-> <<>>, key |-> "", docs |-> <<>>,
                  value |-> NoValue, count |-> EmptyDict, raised |-> FALSE]
    /\ kb_ncalls = 0

\* the simulator after construction (__init__ ends with reset) when
\* random.choice picked the goal
UsInitWith(goal) ==
    /\ us_goal = goal
    /\ us_not_sent_inf = DOMAIN goal.inf
    /\ us_not_answ_req = Range(goal.req) \cup {GOAL_KEY}
    /\ us_curr_agt_inf = EmptyDict
    /\ us_already_matched_inf = {}
    /\ us_satisfied = FALSE
    /\ us_round = 0
    /\ us_call = UsCall("reset", None, UsRet(NoUsrAct, 0, FALSE, FALSE))
    /\ us_pc = "new"

\* the dialogue manager after construction, outside of any episode
DmInit ==
    /\ dm_rl_mem = <<>>
    /\ dm_warmup_mem = <<>>
    /\ dm_call = DmCall("none", FALSE, <<>>, 0, 1, FALSE)
    /\ ep_pc = "idle"
    /\ ep_warmup = FALSE
    /\ ep_state = 0
    /\ ep_agt_act_idx = 0
    /\ ep_round = 0
    /\ ep_episode_reward = 0
    /\ ep_ret = EpRet(0, FALSE, FALSE)
    /\ ep_rejected = FALSE
    \* no call of get_conflict_keys recorded yet
    /\ mt_call = [op |-> "init", inform |-> EmptyDict, context |-> EmptyDict, keys |-> {}]
    \* the RBAgent after construction, no step made yet
    /\ rb = rb_reset
    /\ rb_call = [op |-> "init", usr |-> NoUsrAct, agt |-> None, before |-> rb_reset,
                  mem |-> rb_reset, rule |-> "", action |-> None, index |-> -1,
                  raised |-> FALSE]
    /\ rb_ncalls = 0
    /\ step_pc = "idle"
    /\ step_call = [op |-> "init", usr |-> NoUsrAct, index |-> -1, action |-> None,
                    raised |-> FALSE, returned |-> FALSE]
    \* no call of infuse_error recorded yet
    /\ em_call = [op |-> "init", usr |-> NoUsrAct, error_probability |-> 0,
                  act |-> NoUsrAct, error_infused |-> FALSE, raised |-> FALSE]
    \* the behaviour network as built, nothing saved yet
    /\ rl_beh_model = ConstNet(0)
    /\ disk_memory = <<>>
    /\ disk_rl_agt = <<>>
    /\ ps_call = [op |-> "init", raised |-> FALSE]
    \* no call of train yet
    /\ rl_epsilon_decays = 0
    /\ tr_pc = "idle"
    /\ tr_tar_model = ConstNet(0)
    /\ tr_batches = <<>>
    /\ tr_call = [op |-> "init", batch |-> <<>>, beh |-> ConstNet(0),
                  tar |-> ConstNet(0), q |-> <<>>]
    \* no call of run_period yet
    /\ rp_pc = "idle"
    /\ rp_warmup = FALSE
    /\ rp_max_episodes = 0
    /\ rp_n_episode = 0
    /\ rp_is_memory_full = FALSE

\* the tracker alone
InitST == StInit /\ UsInitWith(Goals[1]) /\ DmInit
NextST ==
    \/ STUserAct /\ UNCHANGED <<usVars, dmVars, kbVars, mt_call, rbVars, em_call, psVars, trVars, rpVars>>
    \/ STAgentAct /\ UNCHANGED <<usVars, dmVars, kbVars, mt_call, rbVars, em_call, psVars, trVars, rpVars>>
    \/ STReset /\ UNCHANGED <<usVars, dmVars, kbVars, mt_call, rbVars, em_call, psVars, trVars, rpVars>>
SpecST == InitST /\ [][NextST]_vars

\* the user simulator alone
InitUS == StInit /\ (\E g \in 1..Len(Goals) : UsInitWith(Goals[g])) /\ DmInit
NextUS ==
    \/ USReset /\ UNCHANGED <<stVars, dmVars, kbVars, mt_call, rbVars, em_call, psVars, trVars, rpVars>>
    \/ USInitAction /\ UNCHANGED <<stVars, dmVars, kbVars, mt_call, rbVars, em_call, psVars, trVars, rpVars>>
    \/ USStep /\ UNCHANGED <<stVars, dmVars, kbVars, mt_call, rbVars, em_call, psVars, trVars, rpVars>>
SpecUS == InitUS /\ [][NextUS]_vars

\* the experience buffers under direct calls and episodes
NextDM ==
    \/ DMAddExperience /\ UNCHANGED <<stVars, usVars, kbVars, mt_call, rbVars, em_call, psVars, trVars, rpVars>>
    \/ DMEmptyRlMem /\ UNCHANGED <<stVars, usVars, kbVars, mt_call, rbVars, em_call, psVars, trVars, rpVars>>
    \/ EpisodeStart /\ UNCHANGED <<stVars, usVars, kbVars, mt_call, rbVars, em_call, psVars, trVars, rpVars>>
    \/ EpisodeTurn /\ UNCHANGED <<stVars, usVars, kbVars, mt_call, rbVars, em_call, psVars, trVars, rpVars>>
SpecDM == InitST /\ [][NextDM]_vars

\* the knowledge-base manager under any sequence of queries
NextKB ==
    \/ KBFindMatchingDocs /\ UNCHANGED <<stVars, usVars, dmVars, mt_call, rbVars, em_call, psVars, trVars, rpVars>>
    \/ KBFindMatchingValue /\ UNCHANGED <<stVars, usVars, dmVars, mt_call, rbVars, em_call, psVars, trVars, rpVars>>
    \/ KBCountMatches /\ UNCHANGED <<stVars, usVars, dmVars, mt_call, rbVars, em_call, psVars, trVars, rpVars>>
SpecKB == InitST /\ [][NextKB]_vars

\* the rule-based agent alone
NextRB ==
    \/ RBGetAction /\ UNCHANGED <<stVars, usVars, dmVars, kbVars, mt_call, em_call, psVars, trVars, rpVars>>
    \/ RBRecordProcessedAction /\ UNCHANGED <<stVars, usVars, dmVars, kbVars, mt_call, em_call, psVars, trVars, rpVars>>
    \/ RBReset /\ UNCHANGED <<stVars, usVars, dmVars, kbVars, mt_call, em_call, psVars, trVars, rpVars>>
SpecRB == InitST /\ [][NextRB]_vars

\* the steps of the dialogue manager in warm-up mode
NextStep ==
    \/ DMStepUser /\ UNCHANGED <<usVars, dmVars, kbVars, mt_call, em_call, psVars, trVars, rpVars>>
    \/ DMStepAgent /\ UNCHANGED <<usVars, dmVars, kbVars, mt_call, em_call, psVars, trVars, rpVars>>
    \/ DMReset /\ UNCHANGED <<usVars, dmVars, kbVars, mt_call, em_call, psVars, trVars, rpVars>>
SpecStep == InitST /\ [][NextStep]_vars

\* the persistence of the dialogue manager
NextPS ==
    \/ DMSave /\ UNCHANGED <<stVars, usVars, kbVars, mt_call, rbVars, em_call, trVars, rpVars>>
    \/ DMLoad /\ UNCHANGED <<stVars, usVars, kbVars, mt_call, rbVars, em_call, trVars, rpVars>>
    \/ ArtifactLost /\ UNCHANGED <<stVars, usVars, kbVars, mt_call, rbVars, em_call, trVars, rpVars>>
    \/ PSAddExperience /\ UNCHANGED <<stVars, usVars, kbVars, mt_call, rbVars, em_call, trVars, rpVars>>
    \/ PSTrain /\ UNCHANGED <<stVars, usVars, kbVars, mt_call, rbVars, em_call, trVars, rpVars>>
SpecPS == InitST /\ [][NextPS]_vars

\* calls of RLAgent.train
NextTR ==
    \/ TrainStart /\ UNCHANGED <<stVars, usVars, dmVars, kbVars, mt_call, rbVars, em_call, disk_memory, disk_rl_agt, ps_call, rpVars>>
    \/ TrainBatch /\ UNCHANGED <<stVars, usVars, dmVars, kbVars, mt_call, rbVars, em_call, disk_memory, disk_rl_agt, ps_call, rpVars>>
    \/ TrainEnd /\ UNCHANGED <<stVars, usVars, dmVars, kbVars, mt_call, rbVars, em_call, disk_memory, disk_rl_agt, ps_call, rpVars>>
SpecTR == InitST /\ [][NextTR]_vars

\* calls of infuse_error
SpecEM == InitST /\ [][InfuseError /\ UNCHANGED <<stVars, usVars, dmVars, kbVars, mt_call, rbVars, psVars, trVars, rpVars>>]_vars

\* calls of get_conflict_keys
SpecMT == InitST /\ [][GetConflictKeys /\ UNCHANGED <<stVars, usVars, dmVars, kbVars, rbVars, em_call, psVars, trVars, rpVars>>]_vars

\* periods of episodes, one after the other
NextRP ==
    \/ RunPeriodStart /\ UNCHANGED <<stVars, usVars, kbVars, mt_call, rbVars, em_call, psVars, trVars>>
    \/ RunPeriodEpisode /\ UNCHANGED <<stVars, usVars, kbVars, mt_call, rbVars, em_call, psVars, trVars>>
    \/ RunPeriodTurn /\ UNCHANGED <<stVars, usVars, kbVars, mt_call, rbVars, em_call, psVars, trVars>>
    \/ RunPeriodEnd /\ UNCHANGED <<stVars, usVars, kbVars, mt_call, rbVars, em_call, psVars, trVars>>
\* run_period is straight-line code: a step that can be taken is taken
SpecRP == InitST /\ [][NextRP]_vars /\ WF_vars(NextRP)

(***************************************************************************)
(* Properties of the dialogue state tracker                                *)
(***************************************************************************)
\* C6: a REJECT, or a structured user act whose informs conflict with the
\* agent proposal, leaves the proposal empty and the constraint set equal to
\* the user informs (the old ones merged with the act's); a REJECT leaves the
\* user informs and the user requests as they were.
C6_RejectOrConflictClearsProposal ==
    \* the step is a call of process_user_action that returned
    [][(st_call'.op = "user" /\ ~st_call'.raised) =>
        LET act == st_call'.usr IN
        /\ (act = UsrSpec(RJCT)
            \/ (act.kind = "dict" /\ get_conflict_keys(act.inf, st_curr_agt_inf) # {}))
           => /\ st_curr_agt_inf' = EmptyDict
              /\ st_curr_constraints' = st_curr_usr_inf'
              /\ st_curr_usr_inf' = Update(st_curr_usr_inf, act.inf)
        /\ act = UsrSpec(RJCT)
           => /\ st_curr_usr_inf' = st_curr_usr_inf
              /\ st_curr_usr_req' = st_curr_usr_req]_vars

\* a structured user act conflicted with a standing proposal and cleared it
C6_Witness ==
    /\ st_call.op = "user" /\ ~st_call.raised
    /\ st_call.usr.kind = "dict"
    /\ st_call.before # EmptyDict
    /\ get_conflict_keys(st_call.usr.inf, st_call.before) # {}
    /\ st_curr_agt_inf = EmptyDict
    /\ st_curr_usr_inf # EmptyDict

\* C7: an INFORM of K for which no document matches the constraints without
\* K returns WITHDRAW CURRENT PROPOSALS, with the proposal emptied and the
\* constraint set equal to the user informs, if a proposal was standing, and
\* NO MATCH AVAILABLE otherwise; no value is recorded for K and the returned
\* act is the last agent act.
C7_NoMatchWithdrawsOrReportsNoMatch ==
    [][(st_call'.op = "agent" /\ ~st_call'.raised /\ st_call'.agt.intent = INF
        /\ find_matching_docs(Pop(st_curr_constraints, st_call'.agt.key)) = <<>>)
       => /\ IF st_curr_agt_inf # EmptyDict
             THEN /\ st_call'.ret = AgtSpec(WCP)
                  /\ st_curr_agt_inf' = EmptyDict
                  /\ st_curr_constraints' = st_curr_usr_inf'
             ELSE st_call'.ret = AgtSpec(NMA)
          /\ st_call'.agt.key \notin DOMAIN st_curr_agt_inf'
          /\ st_last_agt_act' = st_call'.ret]_vars

\* a standing proposal was withdrawn
C7_Witness ==
    /\ st_call.op = "agent" /\ ~st_call.raised
    /\ st_call.ret = AgtSpec(WCP)
    /\ st_call.before # EmptyDict
    /\ st_curr_usr_inf # EmptyDict

\* C8: an INFORM of K for which a match exists returns (INFORM, K, v) with v
\* the K field (as a str) of a document matching every constraint other than
\* K; afterwards the proposal and the constraint set map K to v and every
\* other entry of the proposal, the user informs and the user requests are
\* as before.
C8_InformAttachesMatchingValue ==
    [][(st_call'.op = "agent" /\ ~st_call'.raised /\ st_call'.agt.intent = INF
        /\ find_matching_docs(Pop(st_curr_constraints, st_call'.agt.key)) # <<>>)
       => LET K == st_call'.agt.key
              docs == find_matching_docs(Pop(st_curr_constraints, K))
              v == st_call'.ret.value
          IN  /\ st_call'.ret = Act3(INF, K, v)
              /\ \E i \in 1..Len(docs) : v = str(docs[i][K])
              /\ K \in DOMAIN st_curr_agt_inf' /\ st_curr_agt_inf'[K] = v
              /\ K \in DOMAIN st_curr_constraints' /\ st_curr_constraints'[K] = v
              /\ Pop(st_curr_agt_inf', K) = Pop(st_curr_agt_inf, K)
              /\ st_curr_usr_inf' = st_curr_usr_inf
              /\ st_curr_usr_req' = st_curr_usr_req]_vars

\* a second key was proposed under a user constraint that not every document meets
C8_Witness ==
    /\ st_call.op = "agent" /\ ~st_call.raised
    /\ st_call.ret.kind = "act3"
    /\ st_call.before # EmptyDict
    /\ st_call.ret.key \notin DOMAIN st_call.before
    /\ st_curr_usr_inf # EmptyDict
    /\ Len(find_matching_docs(Pop(st_curr_constraints, st_call.ret.key))) < Len(KB)

\* C9: in every reachable tracker state the constraint set has the keys of
\* the user informs and of the proposal, with the proposed value for a
\* proposed key and the user's value for any other key.
C9_ConstraintsAreInformsAdjustedByProposal ==
    /\ DOMAIN st_curr_constraints = DOMAIN st_curr_usr_inf \cup DOMAIN st_curr_agt_inf
    /\ \A x \in DOMAIN st_curr_constraints :
          st_curr_constraints[x] = IF x \in DOMAIN st_curr_agt_inf
                                   THEN st_curr_agt_inf[x] ELSE st_curr_usr_inf[x]

\* C10: in every reachable tracker state get_state returns, and returns a
\* vector of the length get_state_dim() had at construction.
C10_GetStateSucceedsWithFixedLength ==
    /\ ~get_state_raises(st_curr_agt_inf, st_curr_usr_inf, st_curr_constraints,
                         st_curr_usr_req, st_last_agt_act, st_last_usr_act)
    /\ Len(get_state(st_curr_agt_inf, st_curr_usr_inf, st_curr_constraints,
                     st_curr_usr_req, st_last_agt_act, st_last_usr_act)) = get_state_dim

(***************************************************************************)
(* Properties of the experience buffers                                    *)
(***************************************************************************)
\* C1: the warm-up buffer never holds more than warmup_mem_size tuples and
\* the online buffer never more than rl_mem_size, whatever add_experience
\* calls, empty_rl_mem calls and episodes came before.
C1_BuffersWithinCapacity ==
    /\ Len(dm_warmup_mem) <= warmup_mem_size
    /\ Len(dm_rl_mem) <= rl_mem_size

\* both buffers are at their size and a further tuple was turned down
C1_Witness ==
    /\ Len(dm_warmup_mem) = warmup_mem_size
    /\ Len(dm_rl_mem) = rl_mem_size
    /\ dm_call.op = "add_experience" /\ dm_call.ret

\* C2: add_experience on a buffer at its size returns True and leaves both
\* buffers as they were; on a buffer below its size it appends the given
\* tuple at the end of the buffer the warmup flag selects, leaves the other
\* buffer as it was and returns False.
C2_AddExperienceRejectsOrAppends ==
    [][dm_call'.op = "add_experience" =>
        LET warmup == dm_call'.warmup
            experience == dm_call'.experience
            size == IF warmup THEN warmup_mem_size ELSE rl_mem_size
            target == IF warmup THEN dm_warmup_mem ELSE dm_rl_mem
        IN  IF Len(target) = size
            THEN /\ dm_call'.ret = TRUE
                 /\ dm_warmup_mem' = dm_warmup_mem
                 /\ dm_rl_mem' = dm_rl_mem
            ELSE /\ dm_call'.ret = FALSE
                 /\ IF warmup
                    THEN /\ dm_warmup_mem' = Append(dm_warmup_mem, experience)
                         /\ dm_rl_mem' = dm_rl_mem
                    ELSE /\ dm_rl_mem' = Append(dm_rl_mem, experience)
                         /\ dm_warmup_mem' = dm_warmup_mem]_vars

\* an episode appended a tuple behind another one of the online buffer
\* while the warm-up buffer was full
C2_Witness ==
    /\ dm_call.op = "add_experience" /\ ~dm_call.ret /\ ~dm_call.warmup
    /\ ep_pc = "loop"
    /\ Len(dm_rl_mem) = 2
    /\ dm_rl_mem[2] = dm_call.experience
    /\ dm_rl_mem[1] # dm_call.experience
    /\ Len(dm_warmup_mem) = warmup_mem_size

(***************************************************************************)
(* Properties of the user simulator                                        *)
(***************************************************************************)
\* C3: every step of a running episode adds exactly one to the round
\* counter, the counter never passes patience, and a step whose round is
\* patience returns done; patience minus the round counter thus bounds the
\* number of steps an episode still takes.
C3_DoneWithinPatience ==
    [][us_pc = "running" =>
        /\ us_call'.op = "step"
        /\ us_round' = us_round + 1
        /\ us_round' <= patience
        /\ (us_round' = patience => us_call'.ret.done)
        /\ (us_call'.ret.done <=> us_pc' = "done")]_vars

\* a step was done only because its round was patience
C3_Witness ==
    /\ us_call.op = "step"
    /\ us_round = patience
    /\ us_call.ret.done /\ ~us_call.ret.success
    /\ us_call.agt # AgtSpec(NMA)
    /\ us_not_answ_req # {}

\* C4: the reward of a step is 2 * patience + |goal informs| + |goal
\* requests| exactly when the step returns done with success; otherwise it
\* is at most 0, and it is -1 when the step does not return done.
C4_RewardTellsSuccess ==
    us_call.op = "step" =>
        LET ret == us_call.ret
            full_reward == 2 * patience + Cardinality(DOMAIN us_goal.inf)
                           + Len(us_goal.req)
        IN  /\ (ret.reward = full_reward) <=> (ret.done /\ ret.success)
            /\ ~(ret.done /\ ret.success) => ret.reward <= 0
            /\ ~ret.done => ret.reward = 0 - 1

\* a step of a goal with requests returned done with success
C4_Witness ==
    /\ us_call.op = "step"
    /\ us_call.ret.done /\ us_call.ret.success
    /\ us_goal.req # <<>>
    /\ us_call.ret.reward > 2 * patience

\* C5: a step that returns success also returns done, leaves no request
\* unanswered and no inform unsent, and the document whose goal key is the
\* proposed one conflicts with no goal inform and with no value of the
\* simulator's record of the agent's proposal.
C5_SuccessIsDoneAndConsistent ==
    (us_call.op = "step" /\ us_call.ret.success) =>
        /\ us_call.ret.done
        /\ us_not_answ_req = {}
        /\ us_not_sent_inf = {}
        /\ GOAL_KEY \in DOMAIN us_curr_agt_inf
        /\ \E i \in 1..Len(KB) :
              /\ str(KB[i][GOAL_KEY]) = us_curr_agt_inf[GOAL_KEY]
              /\ get_conflict_keys(us_goal.inf, KB[i]) = {}
              /\ get_conflict_keys(us_curr_agt_inf, KB[i]) = {}

\* a step returned success on a proposal of the goal key and another field
C5_Witness ==
    /\ us_call.op = "step"
    /\ us_call.ret.success
    /\ Cardinality(DOMAIN us_curr_agt_inf) >= 2

(***************************************************************************)
(* Properties of the knowledge-base manager                                *)
(***************************************************************************)
\* C11: whatever queries came before, a count_matches call that returns
\* gives, under MATCHING ALL, the number of documents find_matching_docs
\* returns for the same constraints.
C11_CountOfAllIsNumberOfMatchingDocs ==
    [][(kb_call'.op = "count_matches" /\ ~kb_call'.raised) =>
        \A q \in KbQueries :
           q.items = kb_call'.items =>
              kb_call'.count[MA] =
                  Len(find_matching_docs_cached(kb_cache', q.constraints).ret)]_vars

\* count_matches answered for two constraints only one document satisfies,
\* after find_matching_value had been asked with the same constraints
C11_Witness ==
    /\ kb_call.op = "count_matches" /\ ~kb_call.raised
    /\ Len(kb_call.items) = 2
    /\ kb_call.count[MA] = 1
    /\ \E k \in DOMAIN kb_cache.values :
          k[2] = {kb_call.items[1], kb_call.items[2]} /\ kb_cache.values[k] # <<>>

\* C12: whatever queries came before and in whatever order the keys of the
\* constraints were inserted, a find_matching_docs call that returns gives
\* exactly the documents of the knowledge base, each once, that
\* get_conflict_keys finds no conflict with, and a repeated call gives the
\* same list.
C12_CachedDocsAreUncachedFilter ==
    [][(kb_call'.op = "find_matching_docs" /\ ~kb_call'.raised) =>
        \A q \in KbQueries :
           q.items = kb_call'.items =>
              LET matching == {i \in 1..Len(KB) :
                                  get_conflict_keys(q.constraints, KB[i]) = {}}
              IN  /\ Range(kb_call'.docs) = {KB[i] : i \in matching}
                  /\ Len(kb_call'.docs) = Cardinality(matching)
                  /\ find_matching_docs_cached(kb_cache', q.constraints).ret
                        = kb_call'.docs]_vars

\* find_matching_docs answered from the cache for constraints given as
\* (publication_year, authors), one document matching
C12_Witness ==
    /\ kb_call.op = "find_matching_docs" /\ ~kb_call.raised
    /\ Len(kb_call.items) = 2
    /\ kb_call.items[1][1] = "publication_year"
    /\ Len(kb_call.docs) = 1
    /\ \E k \in DOMAIN kb_cache.values :
          k[2] = {kb_call.items[1], kb_call.items[2]} /\ kb_cache.values[k] # <<>>

\* C13: a find_matching_value call that returns gives the NO MATCH
\* AVAILABLE value exactly when find_matching_docs finds no document for
\* the constraints, and otherwise the str of the key's field of one of the
\* documents find_matching_docs finds.
C13_ValueIsNoMatchOrFieldOfMatchingDoc ==
    [][(kb_call'.op = "find_matching_value" /\ ~kb_call'.raised) =>
        \A q \in KbQueries :
           q.items = kb_call'.items =>
              LET documents == find_matching_docs_cached(kb_cache', q.constraints).ret
              IN  /\ kb_call'.value = NMA_VALUE <=> documents = <<>>
                  /\ documents # <<>> =>
                        \E i \in 1..Len(documents) :
                           kb_call'.value = str(documents[i][kb_call'.key])]_vars

\* find_matching_value answered NO MATCH AVAILABLE from its cache, and
\* elsewhere the year of a document as a string
C13_Witness ==
    /\ kb_call.op = "find_matching_value" /\ ~kb_call.raised
    /\ kb_call.value = NMA_VALUE
    /\ kb_ncalls >= 3
    /\ \E k \in DOMAIN kb_cache.values :
          k[1] = "publication_year" /\ S(<<"2","0","1","8">>) \in Range(kb_cache.values[k])

(***************************************************************************)
(* Properties of get_conflict_keys                                         *)
(***************************************************************************)
\* C14: when get_conflict_keys returns, a field constrained by a range key
\* (min_publication_year, max_publication_year, min_num_citations) that the
\* inform does not hold itself is a conflict exactly when the inform holds a
\* range key on it, the context holds the field, and the comparison of the
\* field with the bound fails; a context lacking the field never conflicts.
C14_RangeKeyConflictsIffFieldPresentAndComparisonFails ==
    (mt_call.op = "get_conflict_keys" /\ ~Raises(mt_call.keys)) =>
        LET inform == mt_call.inform
            context == mt_call.context
            Fails(k) ==
                LET field == CONSTRAINING_KEYS_MAPS[k][1]
                IN  /\ inform[k] # OWT
                    /\ field \in DOMAIN context
                    /\ context[field] # OWT
                    /\ IF k = "max_publication_year"
                       THEN IntOf(context[field]) > IntOf(inform[k])
                       ELSE IntOf(context[field]) < IntOf(inform[k])
            failed == {CONSTRAINING_KEYS_MAPS[k][1] :
                          k \in {x \in DOMAIN CONSTRAINING_KEYS_MAPS \cap DOMAIN inform :
                                    Fails(x)}}
        IN  \A field \in DOMAIN CONSTRAINED_KEYS_MAPS \ DOMAIN inform :
               field \in mt_call.keys <=> field \in failed

\* min_num_citations 11 against a document with 10 citations: num_citations
\* is the conflict
C14_Witness ==
    /\ mt_call.op = "get_conflict_keys"
    /\ DOMAIN mt_call.inform = {"min_num_citations"}
    /\ mt_call.inform["min_num_citations"] = S(<<"1","1">>)
    /\ mt_call.context = KB[1]
    /\ mt_call.keys = {"num_citations"}

\* C15: get_conflict_keys returns no key but one the context holds with
\* a value other than the wildcard (for keywords: unless the context holds
\* abstract, document_title and publication_title); against a context that
\* is empty once the wildcards are removed, and for an inform of wildcards
\* only, it returns the empty set.
C15_MissingInformationIsNoConflict ==
    mt_call.op = "get_conflict_keys" =>
        LET present == {x \in DOMAIN mt_call.context : mt_call.context[x] # OWT}
        IN  /\ present = {} => mt_call.keys = {}
            /\ (\A x \in DOMAIN mt_call.inform : mt_call.inform[x] = OWT)
                  => mt_call.keys = {}
            /\ ~Raises(mt_call.keys) =>
                  \A k \in mt_call.keys :
                     IF k = "keywords"
                     THEN {"abstract", "document_title", "publication_title"}
                             \subseteq present
                     ELSE k \in present

\* keywords the abstract does not hold, against agent informs that hold the
\* abstract and neither title: no conflict
C15_Witness ==
    /\ mt_call.op = "get_conflict_keys"
    /\ DOMAIN mt_call.inform = {"keywords"}
    /\ mt_call.inform["keywords"] = S(<<"a","i">>)
    /\ DOMAIN mt_call.context = {"abstract"}
    /\ mt_call.keys = {}

(***************************************************************************)
(* Properties of the rule-based agent                                      *)
(***************************************************************************)
\* C16: a get_action call raises only when its get_conflict_keys raises, and
\* otherwise returns an (INFORM, key) with key in AGT_INF_KEYS or a
\* (REQUEST, key) with key in AGT_REQ_KEYS, never a special act, together
\* with the position of that action in AGT_ACTS (counted from 0).
C16_ActionIsMemberOfAgtActsAtIndex ==
    rb_call.op = "get_action" =>
        IF rb_call.raised
        THEN /\ rb_call.usr.kind = "dict"
             /\ Raises(get_conflict_keys(rb_call.usr.inf, rb_call.before.curr_agt_inf))
        ELSE /\ rb_call.action.kind = "act2"
             /\ \/ /\ rb_call.action.intent = INF
                   /\ rb_call.action.key \in Range(AGT_INF_KEYS)
                \/ /\ rb_call.action.intent = REQ
                   /\ rb_call.action.key \in Range(AGT_REQ_KEYS)
             /\ rb_call.index \in 0..(Len(AGT_ACTS) - 1)
             /\ AGT_ACTS[rb_call.index + 1] = rb_call.action

\* every key the agent can inform is known and the agent informs again a
\* key the user gave the wildcard for (rule 3.4)
C16_Witness ==
    /\ rb_call.op = "get_action" /\ ~rb_call.raised
    /\ rb_call.rule = "3.4"
    /\ rb_call.action.key \in rb.curr_OWT_inf
    /\ Range(AGT_INF_KEYS) \subseteq DOMAIN rb.curr_agt_inf \cup DOMAIN rb.curr_usr_inf

\* C17: a get_action call on a structured user act with a non-empty request
\* list that returns, returns (INFORM, k) with k in that request list.
C17_RequestIsAnsweredAtOnce ==
    (/\ rb_call.op = "get_action" /\ ~rb_call.raised
     /\ rb_call.usr.kind = "dict" /\ rb_call.usr.req # <<>>) =>
        /\ rb_call.action.kind = "act2"
        /\ rb_call.action.intent = INF
        /\ rb_call.action.key \in Range(rb_call.usr.req)

\* a request answered while the memory held agent informs and an older
\* request not yet answered
C17_Witness ==
    /\ rb_call.op = "get_action" /\ ~rb_call.raised
    /\ rb_call.usr.kind = "dict" /\ rb_call.usr.req # <<>>
    /\ rb_call.before.curr_agt_inf # EmptyDict
    /\ rb_call.before.pending_usr_req \ Range(rb_call.usr.req) # {}

(***************************************************************************)
(* Properties of DialogueManager.step                                      *)
(***************************************************************************)
\* C20: after every step in warm-up mode that returned, the agent informs
\* and the user informs of the RBAgent equal those of the tracker.
C20_PolicyMemoryEqualsTrackerMemory ==
    (step_call.op = "step" /\ step_call.returned) =>
        /\ rb.curr_agt_inf = st_curr_agt_inf
        /\ rb.curr_usr_inf = st_curr_usr_inf

(***************************************************************************)
(* Properties of the error model controller                                *)
(***************************************************************************)
\* C18: with error probability 0 infuse_error returns the act it was given
\* and error_infused false; with error probability 1 on a structured act
\* with informs and no request it returns error_infused true and an act
\* whose inform keys, inform values or request list differ from the input's.
C18_NeverOrAlwaysCorrupts ==
    em_call.op = "infuse_error" =>
        /\ em_call.error_probability = 0 =>
              /\ ~em_call.raised
              /\ em_call.act = em_call.usr
              /\ ~em_call.error_infused
        /\ (/\ em_call.error_probability = 100
            /\ em_call.usr.kind = "dict"
            /\ em_call.usr.inf # EmptyDict
            /\ em_call.usr.req = <<>>) =>
              /\ ~em_call.raised
              /\ em_call.error_infused
              /\ em_call.act.kind = "dict"
              /\ \/ DOMAIN em_call.act.inf # DOMAIN em_call.usr.inf
                 \/ \E x \in DOMAIN em_call.usr.inf : em_call.act.inf[x] # em_call.usr.inf[x]
                 \/ em_call.act.req # em_call.usr.req

\* a controller of error probability 1 gave the wildcard inform of
\* open_access a value
C18_Witness ==
    /\ em_call.op = "infuse_error"
    /\ em_call.error_probability = 100
    /\ DOMAIN em_call.usr.inf = {"open_access"} /\ em_call.usr.inf["open_access"] = OWT
    /\ DOMAIN em_call.act.inf = {"open_access"} /\ em_call.act.inf["open_access"] # OWT
    /\ em_call.error_infused

\* C19: infuse_error returns error_infused true exactly when the act it
\* returns is not the one it was given. A corrupted structured act differs
\* from the input in one key only: an inform or a request dropped, an
\* enumerated value replaced by another value of its key, an inform renamed
\* to a key of the same type that was not informed, a request replaced by a
\* key that was not requested, or an inform turned into a request. A
\* corrupted special act is the other special act, one free-text inform, or
\* one request.
C19_ExactlyOneCorruption ==
    em_call.op = "infuse_error" =>
        LET usr == em_call.usr
            act == em_call.act
            SameType(x, y) ==
                \/ {x, y} \subseteq Range(USR_INF_STR_KEYS)
                \/ {x, y} \subseteq Range(USR_INF_NUM_KEYS)
            \* the requests of q once one x is taken out
            Without(q, x) == /\ x \in Range(q)
                             /\ Len(act.req) = Len(q) - 1
                             /\ Range(act.req) = Range(q) \ {x}
        IN  /\ ~em_call.raised
            /\ em_call.error_infused <=> act # usr
            /\ (em_call.error_infused /\ usr.kind = "dict") =>
                  /\ act.kind = "dict"
                  /\ \/ \E x \in DOMAIN usr.inf :
                           /\ act.inf = Pop(usr.inf, x)
                           /\ act.req \in {usr.req, Append(usr.req, x)}
                     \/ \E x \in DOMAIN usr.inf \cap DOMAIN USR_INF_ENUM_KEYS :
                           /\ DOMAIN act.inf = DOMAIN usr.inf
                           /\ act.inf[x] \in Range(USR_INF_ENUM_KEYS[x]) \ {usr.inf[x]}
                           /\ \A y \in DOMAIN usr.inf \ {x} : act.inf[y] = usr.inf[y]
                           /\ act.req = usr.req
                     \/ \E x \in DOMAIN usr.inf, y \in Range(USR_INF_KEYS) \ DOMAIN usr.inf :
                           /\ SameType(x, y)
                           /\ act.inf = Pop(usr.inf, x) @@ (y :> usr.inf[x])
                           /\ act.req = usr.req
                     \/ \E x \in Range(usr.req) :
                           /\ act.inf = usr.inf
                           /\ \/ Without(usr.req, x)
                              \/ \E y \in Range(USR_REQ_KEYS) \ Range(usr.req) :
                                    /\ Len(act.req) = Len(usr.req)
                                    /\ Range(act.req) = (Range(usr.req) \ {x}) \cup {y}
            /\ (em_call.error_infused /\ usr.kind = "spec") =>
                  \/ /\ act.kind = "spec"
                     /\ act.spec \in Range(USR_SPEC_ACTS) \ {usr.spec}
                  \/ /\ act.kind = "dict"
                     /\ act.req = <<>>
                     /\ \E x \in Range(USR_INF_STR_KEYS) : DOMAIN act.inf = {x}
                  \/ /\ act.kind = "dict"
                     /\ act.inf = EmptyDict
                     /\ Len(act.req) = 1
                     /\ act.req[1] \in Range(USR_REQ_KEYS)

\* of two numeric bounds informed together, one was renamed to a numeric
\* key the act did not hold and the other was left as it was
C19_Witness ==
    /\ em_call.op = "infuse_error" /\ em_call.error_infused
    /\ em_call.error_probability = 2
    /\ DOMAIN em_call.usr.inf = {"min_publication_year", "max_publication_year"}
    /\ DOMAIN em_call.act.inf = {"min_publication_year", "min_num_citations"}
    /\ em_call.act.inf["min_publication_year"] = em_call.usr.inf["min_publication_year"]
    /\ em_call.act.inf["min_num_citations"] = em_call.usr.inf["max_publication_year"]
\* C21: every turn of run_episode's loop (one US.step) makes one
\* add_experience call on the buffer its warmup flag selects, so a warm-up
\* episode leaves the online buffer as it was and a training episode the
\* warm-up buffer; the flag run_episode returns is true exactly when
\* add_experience turned down a tuple of that episode.
C21_EpisodeAttemptsOncePerTurnAndReportsRejection ==
    [][ep_pc = "loop" =>
        /\ dm_call'.op = "add_experience"
        /\ dm_call'.warmup = ep_warmup
        /\ dm_call'.experience[1] = ep_state
        /\ ep_warmup => dm_rl_mem' = dm_rl_mem
        /\ ~ep_warmup => dm_warmup_mem' = dm_warmup_mem
        /\ (ep_pc' = "loop") => ep_round' = ep_round + 1
        /\ (ep_pc' = "idle")
           => ep_ret'.is_memory_full = (ep_rejected \/ dm_call'.ret)]_vars

\* a warm-up episode returned the full flag after a turn whose tuple was
\* turned down, with tuples in the online buffer
C21_Witness ==
    /\ ep_pc = "idle"
    /\ ep_ret.is_memory_full
    /\ dm_call.op = "add_experience" /\ dm_call.warmup /\ dm_call.ret
    /\ Len(dm_warmup_mem) = warmup_mem_size
    /\ dm_rl_mem # <<>>

\* C22: a call of DialogueManager.load that fails leaves the warm-up buffer,
\* the online buffer and the behaviour network as they were before the call.
C22_FailedLoadChangesNothing ==
    [][(ps_call'.op = "load" /\ ps_call'.raised)
        => /\ dm_warmup_mem' = dm_warmup_mem
           /\ dm_rl_mem' = dm_rl_mem
           /\ rl_beh_model' = rl_beh_model]_vars

\* C23: for every experience (s, a, r, s', d) of a batch, the row of the
\* array given to fit is the behaviour network's output at s with the entry
\* of a replaced by r when d is set and by
\* r + gamma * Q_target(s', argmax Q_behaviour(s')) otherwise, Q_target being
\* the clone taken at the start of the call.
C23_TargetsAreDoubleDQN ==
    [][tr_call'.op = "batch" =>
        \A i \in 1..Len(tr_call'.batch) :
           LET e == tr_call'.batch[i]
               double == tr_tar_model[e[4]][argmax(rl_beh_model[e[4]])]
               target == IF e[5] THEN e[3] * gamma[2]
                         ELSE e[3] * gamma[2] + gamma[1] * double
           IN  tr_call'.q[i] = [b \in QActs |-> IF b = e[2] THEN target
                                                ELSE rl_beh_model[e[1]][b] * gamma[2]]]_vars

C25_RewardRoundsTheWeightFirst ==
    (us_call.op = "step" /\ us_call.ret.done /\ ~us_call.ret.success) =>
        LET n_req == Len(us_goal.req) + 1
            n_inf == Cardinality(DOMAIN us_goal.inf)
            \* the sum of the two ratios is num / (n_req * n_inf)
            num == Cardinality(us_not_answ_req) * n_inf
                   + Cardinality(us_not_sent_inf) * n_req
        IN  \E k \in 0..2 :
               /\ 2 * k * n_req * n_inf - 2 * num <= n_req * n_inf
               /\ 2 * num - 2 * k * n_req * n_inf <= n_req * n_inf
               /\ us_call.ret.reward = 0 - k * patience

\* C26: over any sequence of queries the documents entry of the cache is
\* written at most once for each constraint set, whether its match set is
\* empty or not.
C26_DocumentsEntryWrittenAtMostOnce ==
    \A hashable_constraints \in DOMAIN kb_cache.writes :
        kb_cache.writes[hashable_constraints] <= 1

\* C27: a get_action on REJECT, a get_action on a structured act whose
\* informs conflict with the current agent informs, and a
\* record_processed_action of WITHDRAW CURRENT PROPOSALS empty the current
\* agent informs and set the pending requests to all the user requests
\* accumulated so far, before the requests of the new act are merged and the
\* keys it informs removed; every other call takes from the pending requests
\* only the key the policy informs and the keys the user act informs.
C27_PendingRequestsResetOrOnlyLoseInformedKeys ==
    (rb_call.op \in {"get_action", "record_processed_action"}) =>
        LET before == rb_call.before
            after == rb_call.mem
            inf_keys == DOMAIN rb_call.usr.inf
            reqs == Range(rb_call.usr.req)
            informed == IF rb_call.action.intent = INF THEN {rb_call.action.key} ELSE {}
            conflict_keys == IF rb_call.usr.kind = "dict"
                             THEN get_conflict_keys(rb_call.usr.inf, before.curr_agt_inf)
                             ELSE {}
            resets == \/ rb_call.usr = UsrSpec(RJCT)
                      \/ conflict_keys # {} /\ ~Raises(conflict_keys)
                      \/ rb_call.agt = AgtSpec(WCP)
        IN  IF resets
            THEN /\ after.curr_agt_inf = EmptyDict
                 /\ after.pending_usr_req =
                        ((before.curr_usr_req \cup reqs) \ inf_keys) \ informed
            ELSE /\ before.pending_usr_req \ after.pending_usr_req
                        \subseteq inf_keys \cup informed
                 /\ after.pending_usr_req \subseteq before.pending_usr_req \cup reqs

\* a conflicting inform brought back a request that had been answered: the
\* key was not pending, the act does not request it, and it is pending again
C27_Witness ==
    /\ rb_call.op = "get_action" /\ rb_call.usr.kind = "dict"
    /\ get_conflict_keys(rb_call.usr.inf, rb_call.before.curr_agt_inf) # {}
    /\ ~rb_call.raised
    /\ \E x \in rb_call.mem.pending_usr_req :
          x \notin rb_call.before.pending_usr_req \cup Range(rb_call.usr.req)

\* C28: a step on an agent INFORM whose value conflicts with the informs of
\* the goal clears the proposal memory, resets the requests not answered to
\* the requests of the goal and the goal key, puts the keys already matched
\* and the conflicting keys back among the informs not sent, does not set
\* the satisfaction flag, and replies REJECT or an act without requests
\* that informs one conflicting key with the value of the goal; of the keys
\* put back, only the one such a reply sends is taken out again, and only
\* when the episode goes on.
C28_ConflictingInformResetsAndRestatesOrRejects ==
    [][(us_call'.op = "step" /\ us_call'.agt.intent = INF) =>
          LET conflict_keys ==
                  get_conflict_keys(us_call'.agt.key :> us_call'.agt.value, us_goal.inf)
              response == us_call'.response
              action == us_call'.ret.action
              sent == IF us_call'.ret.done THEN {} ELSE DOMAIN action.inf
          IN  conflict_keys # {} =>
                 /\ response.agt_inf = EmptyDict /\ us_curr_agt_inf' = EmptyDict
                 /\ response.not_answ = Range(us_goal.req) \cup {GOAL_KEY}
                 /\ us_not_answ_req' = response.not_answ
                 /\ response.not_sent =
                        us_not_sent_inf \cup us_already_matched_inf \cup conflict_keys
                 /\ us_not_sent_inf' = response.not_sent \ sent
                 /\ response.satisfied = us_satisfied
                 /\ ~us_satisfied' /\ ~us_call'.ret.success
                 /\ \/ action = UsrSpec(RJCT)
                    \/ \E key \in conflict_keys :
                          action = UsrDict(key :> us_goal.inf[key], <<>>)]_vars

\* after the first round a conflicting INFORM was answered by restating a
\* conflicting key, which left the informs not sent again while others
\* stayed, and the episode went on
C28_Witness ==
    /\ us_call.op = "step" /\ us_call.agt.intent = INF
    /\ get_conflict_keys(us_call.agt.key :> us_call.agt.value, us_goal.inf) # {}
    /\ us_call.ret.action.kind = "dict" /\ ~us_call.ret.done
    /\ us_call.response.not_sent # us_not_sent_inf
    /\ us_not_sent_inf # {}
    /\ us_round >= 2

C30_RequestAnsweredWithInformsItConstrains ==
    (us_call.op = "step" /\ us_call.agt.intent = REQ) =>
        LET K == us_call.agt.key
            action == us_call.ret.action
            constrained ==
                IF K \in DOMAIN CONSTRAINING_KEYS_MAPS
                THEN {CONSTRAINING_KEYS_MAPS[K][1]} \cap DOMAIN us_goal.inf
                ELSE {}
        IN  /\ K \in DOMAIN us_goal.inf =>
                  action = UsrDict(K :> us_goal.inf[K], <<>>)
            /\ (K \notin DOMAIN us_goal.inf /\ constrained # {}) =>
                  action = UsrDict([x \in constrained |-> us_goal.inf[x]], <<>>)
            /\ (action.kind = "dict" /\ K \in DOMAIN action.inf /\ action.inf[K] = OWT) =>
                  (K \notin DOMAIN us_goal.inf /\ constrained = {})

\* C30 with the range constraint taken the other way: a step on an agent
\* REQUEST of key K replies, if the goal informs K, with an act that informs
\* K alone with the value of the goal and requests nothing; otherwise, if
\* the goal has informs that range-constrain K, with an act that informs
\* exactly those with the values of the goal; and the wildcard is given for
\* K only when neither is the case.
C30_RequestAnsweredWithInformsThatConstrainIt ==
    (us_call.op = "step" /\ us_call.agt.intent = REQ) =>
        LET K == us_call.agt.key
            action == us_call.ret.action
            constraining ==
                {ck \in DOMAIN us_goal.inf \cap DOMAIN CONSTRAINING_KEYS_MAPS :
                    CONSTRAINING_KEYS_MAPS[ck][1] = K}
        IN  /\ K \in DOMAIN us_goal.inf =>
                  action = UsrDict(K :> us_goal.inf[K], <<>>)
            /\ (K \notin DOMAIN us_goal.inf /\ constraining # {}) =>
                  action = UsrDict([x \in constraining |-> us_goal.inf[x]], <<>>)
            /\ (action.kind = "dict" /\ K \in DOMAIN action.inf /\ action.inf[K] = OWT) =>
                  (K \notin DOMAIN us_goal.inf /\ constraining = {})

\* the publication year was requested of a user whose goal bounds it from
\* below, and the reply informs the bound
C30_Witness ==
    /\ us_call.op = "step" /\ us_call.agt = Act2(REQ, "publication_year")
    /\ "min_publication_year" \in DOMAIN us_goal.inf
    /\ DOMAIN us_call.ret.action.inf = {"min_publication_year"}

(***************************************************************************)
(* Properties of run_period                                                *)
(***************************************************************************)
\* C31: run_period has left its loop only when an episode reported the
\* buffer full or, in training mode, when n_episode has reached
\* max_episodes; as long as no episode of the period reported the buffer
\* full, the buffer the period fills holds at least one tuple for each of
\* its episodes; a warm-up period runs at most one episode more than the
\* warm-up buffer has room for; and every period returns.
C31_PeriodRunsUntilFullOrCapAndReturns ==
    /\ [](rp_pc = "done" =>
             \/ rp_is_memory_full /\ ep_ret.is_memory_full
             \/ ~rp_warmup /\ rp_n_episode = rp_max_episodes)
    /\ []((rp_pc = "loop" /\ ep_pc = "idle" /\ ~rp_is_memory_full) =>
             Len(IF rp_warmup THEN dm_warmup_mem ELSE dm_rl_mem) >= rp_n_episode)
    /\ []((rp_pc = "loop" /\ rp_warmup) => rp_n_episode <= warmup_mem_size + 1)
    /\ ((rp_pc = "loop") ~> (rp_pc = "done"))

\* a warm-up period on an empty buffer returned after the episode that
\* followed the one whose last tuple filled the buffer
C31_Witness ==
    /\ rp_pc = "done" /\ rp_warmup
    /\ rp_n_episode = warmup_mem_size + 1
    /\ rp_is_memory_full
    /\ Len(dm_warmup_mem) = warmup_mem_size

(***************************************************************************)
(* Properties of the tracker's proposal                                    *)
(***************************************************************************)
\* C32: in every reachable tracker state a non-empty agent proposal is
\* jointly satisfiable: some document of the knowledge base conflicts with
\* none of the proposed values.
C32_ProposalIsSatisfiedByOneDocument ==
    st_curr_agt_inf # EmptyDict =>
        LET proposal == preprocess(st_curr_agt_inf)
        IN  \E i \in 1..Len(KB) : conflict_keys_of(proposal, PreprocessedKB[i]) = {}

\* C33: right after process_agent_action has returned a completed INFORM,
\* the whole constraint set, the value just proposed included, is matched
\* by at least one document, so that the count of the documents matching
\* all constraints is at least 1 until a user act intervenes.
C33_CompletedInformLeavesMatchedConstraints ==
    (st_call.op = "agent" /\ ~st_call.raised /\ st_call.ret.kind = "act3") =>
        /\ st_curr_constraints[st_call.ret.key] = st_call.ret.value
        /\ \E i \in 1..Len(KB) : DocConflicts(st_curr_constraints)[i] = {}
        /\ count_matches(st_curr_constraints)[MA] >= 1

\* a completed INFORM on top of a user inform and of an earlier proposal
C33_Witness ==
    /\ st_call.op = "agent" /\ ~st_call.raised /\ st_call.ret.kind = "act3"
    /\ st_call.before # EmptyDict
    /\ st_call.ret.key \notin DOMAIN st_call.before
    /\ st_curr_usr_inf # EmptyDict
    /\ Cardinality(DOMAIN st_curr_constraints) = 3

(***************************************************************************)
(* Properties of the simulator's bookkeeping                               *)
(***************************************************************************)
\* C34: in every reachable simulator state the goal key is among the
\* requests not answered or in the proposal memory; hence whenever the
\* satisfaction flag is true (when step sets done, and afterwards) the
\* proposal memory has the goal key, so the recheck looks up a key that is
\* there; and every step of a running episode starts with the flag false.
C34_GoalKeyPendingOrProposed ==
    /\ GOAL_KEY \in us_not_answ_req \cup DOMAIN us_curr_agt_inf
    /\ us_satisfied => GOAL_KEY \in DOMAIN us_curr_agt_inf
    /\ us_call.op = "step" =>
          /\ GOAL_KEY \in us_call.response.not_answ \cup DOMAIN us_call.response.agt_inf
          /\ us_call.response.satisfied => GOAL_KEY \in DOMAIN us_call.response.agt_inf
    /\ us_pc \in {"init", "running"} => ~us_satisfied

\* a step of the last round that sets the flag
C34_Witness ==
    /\ us_call.op = "step"
    /\ us_call.response.satisfied
    /\ GOAL_KEY \notin us_not_answ_req
    /\ us_round = patience
    /\ us_pc = "done"

\* C35: in every reachable simulator state the informs not sent and the
\* informs already matched are disjoint sets of keys of the goal's informs,
\* the requests not answered are requests of the goal or the goal key, and
\* only reset changes the goal.
C35_BookkeepingSetsStayWithinGoal ==
    /\ [](/\ us_not_sent_inf \cap us_already_matched_inf = {}
          /\ us_not_sent_inf \cup us_already_matched_inf \subseteq DOMAIN us_goal.inf
          /\ us_not_answ_req \subseteq Range(us_goal.req) \cup {GOAL_KEY})
    /\ [][us_goal' # us_goal => us_call'.op = "reset"]_vars

\* a key matched by the proposal while another inform is still to send
\* and a request has been answered
C35_Witness ==
    /\ us_call.op = "step"
    /\ us_already_matched_inf # {}
    /\ us_not_sent_inf # {}
    /\ us_round >= 2
    /\ us_not_answ_req # Range(us_goal.req) \cup {GOAL_KEY}

(***************************************************************************)
(* Properties of the simulator's replies                                   *)
(***************************************************************************)
\* C36: the reply of a step that does not end the episode is THANKS, REJECT
\* or a structured act with at least one inform or request key, so that
\* the error model, applied to such replies only, always has a key to
\* choose; the empty structured act is returned only by the step that
\* answers NO MATCH AVAILABLE, which ends the episode.
C36_OnlyNoMatchIsAnsweredWithAnEmptyAct ==
    us_call.op = "step" =>
        LET action == us_call.ret.action
            empty == action.kind = "dict" /\ action.inf = EmptyDict /\ action.req = <<>>
        IN  /\ action.kind \in {"spec", "dict"}
            /\ action.kind = "spec" => action.spec \in {THX, RJCT}
            /\ ~us_call.ret.done => ~empty
            /\ empty <=> us_call.agt = AgtSpec(NMA)
            /\ empty => us_call.ret.done

\* a reply picked at random after a withdrawal, in a step that goes on
C36_Witness ==
    /\ us_call.op = "step"
    /\ us_call.agt = AgtSpec(WCP)
    /\ ~us_call.ret.done
    /\ us_call.ret.action.kind = "dict"
    /\ us_call.ret.action.inf = EmptyDict
    /\ Len(us_call.ret.action.req) = 1

\* C37: the reward r of a step that ends the episode without success
\* satisfies -2 * patience <= r <= 0, the requests not answered being at
\* most the goal's requests and the goal key and the informs not sent at
\* most the goal's informs; hence the reward of a successful end, of any
\* goal, is greater than the magnitude of r.
C37_FailureRewardBoundedByTwicePatience ==
    (us_call.op = "step" /\ us_call.ret.done) =>
        IF us_call.ret.success
        THEN us_call.ret.reward > 2 * patience
        ELSE /\ Cardinality(us_not_answ_req) <= Len(us_goal.req) + 1
             /\ Cardinality(us_not_sent_inf) <= Cardinality(DOMAIN us_goal.inf)
             /\ 0 - 2 * patience <= us_call.ret.reward
             /\ us_call.ret.reward <= 0
             /\ \A g \in 1..Len(Goals) :
                   2 * patience + (Len(Goals[g].req) + Cardinality(DOMAIN Goals[g].inf))
                   > 0 - us_call.ret.reward

\* an unsuccessful end with nothing answered and nothing sent: the lowest
\* reward
C37_Witness ==
    /\ us_call.op = "step" /\ us_call.ret.done /\ ~us_call.ret.success
    /\ us_not_answ_req = Range(us_goal.req) \cup {GOAL_KEY}
    /\ us_not_sent_inf = DOMAIN us_goal.inf
    /\ us_call.ret.reward = 0 - 2 * patience

(***************************************************************************)
(* Properties of the tuples an episode stores                              *)
(***************************************************************************)
\* C38: as long as add_experience has turned down no tuple of the running
\* episode, every turn appends one tuple at the end of the targeted buffer
\* and leaves the other buffer alone; the tuple's state is the state the
\* turn started from and its terminal flag is set exactly when the turn
\* ends the episode; the tuples of the episode are the last ones of the
\* buffer, none of them terminal before the end, and the next-state of
\* each is the state of the following one (of the running turn for the
\* last).
C38_EpisodeTuplesAreConsecutiveAndChained ==
    /\ []((ep_pc = "loop" /\ ~ep_rejected) =>
             LET buf == IF ep_warmup THEN dm_warmup_mem ELSE dm_rl_mem
                 n == Len(buf)
             IN  /\ ep_round <= n
                 /\ \A i \in (n - ep_round + 1)..n :
                       /\ buf[i][5] = FALSE
                       /\ buf[i][4] = IF i < n THEN buf[i + 1][1] ELSE ep_state)
    /\ [][(ep_pc = "loop" /\ ~ep_rejected /\ ~dm_call'.ret) =>
             LET e == dm_call'.experience
             IN  /\ IF ep_warmup
                    THEN dm_warmup_mem' = Append(dm_warmup_mem, e) /\ dm_rl_mem' = dm_rl_mem
                    ELSE dm_rl_mem' = Append(dm_rl_mem, e) /\ dm_warmup_mem' = dm_warmup_mem
                 /\ e[1] = ep_state
                 /\ e[5] = (ep_pc' = "idle")
                 /\ ep_pc' = "loop" => ep_round' = ep_round + 1 /\ e[4] = ep_state']_vars

\* the end of an episode of two turns that stored both of its tuples, the
\* state changing in between
C38_Witness ==
    /\ ep_pc = "idle"
    /\ dm_call.op = "add_experience" /\ ~dm_call.ret /\ ~dm_call.warmup
    /\ ep_ret.episode_reward = 0 - 1
    /\ Len(dm_rl_mem) = 2
    /\ dm_rl_mem[2] = dm_call.experience
    /\ dm_rl_mem[1][5] = FALSE /\ dm_rl_mem[2][5] = TRUE
    /\ dm_rl_mem[1][4] = dm_rl_mem[2][1]
    /\ dm_rl_mem[1][1] # dm_rl_mem[1][4]

(***************************************************************************)
(* Frame conditions of the tracker                                         *)
(***************************************************************************)
\* C39: processing an agent REQUEST changes the last agent act only and
\* processing a user THANKS changes the last user act only: the user
\* informs, the user requests, the agent proposal and the constraint set
\* stay as they were; and no call but reset removes a key from the user
\* informs or a request from the user requests.
C39_RequestAndThanksOnlySetTheLastAct ==
    [][/\ (st_call'.op = "agent" /\ st_call'.agt.intent = REQ) =>
            /\ UNCHANGED <<st_curr_agt_inf, st_curr_usr_inf, st_curr_constraints,
                           st_curr_usr_req, st_last_usr_act>>
            /\ st_last_agt_act' = st_call'.agt
       /\ (st_call'.op = "user" /\ st_call'.usr = UsrSpec(THX)) =>
            /\ UNCHANGED <<st_curr_agt_inf, st_curr_usr_inf, st_curr_constraints,
                           st_curr_usr_req, st_last_agt_act>>
            /\ st_last_usr_act' = UsrSpec(THX)
       /\ st_call'.op # "reset" =>
            /\ DOMAIN st_curr_usr_inf \subseteq DOMAIN st_curr_usr_inf'
            /\ st_curr_usr_req \subseteq st_curr_usr_req']_vars

\* a THANKS processed while a proposal stands on top of a user inform and
\* a user request
C39_Witness ==
    /\ st_call.op = "user" /\ st_call.usr = UsrSpec(THX)
    /\ st_call.before # EmptyDict
    /\ st_curr_agt_inf = st_call.before
    /\ st_curr_usr_inf # EmptyDict
    /\ st_curr_usr_req # {}
    /\ st_last_agt_act.kind = "act3"

\* C40: the simulator requests no key of USRSIM_REQ_ONLY_AFTER_AGT_INF
\* while its record of the agent's proposal is empty, be it in its initial
\* action or in the reply of a step (after a withdrawal, after a
\* conflicting inform, to a request of the agent).
C40_NoRestrictedRequestWithoutProposal ==
    /\ us_call.op = "init" =>
          (us_curr_agt_inf = EmptyDict =>
              Range(us_call.ret.action.req) \cap Range(USRSIM_REQ_ONLY_AFTER_AGT_INF) = {})
    /\ us_call.op = "step" =>
          ((us_call.response.agt_inf = EmptyDict \/ us_curr_agt_inf = EmptyDict) =>
              Range(us_call.ret.action.req) \cap Range(USRSIM_REQ_ONLY_AFTER_AGT_INF) = {})

\* after a withdrawal the simulator requests a key it may request at once
\* while a restricted one is still not answered
C40_Witness ==
    /\ us_call.op = "step"
    /\ us_call.agt = AgtSpec(WCP)
    /\ us_curr_agt_inf = EmptyDict
    /\ us_call.ret.action.req = <<"authors">>
    /\ "publication_year" \in us_not_answ_req
====
